---- MODULE Spec2Model ----
(***************************************************************************)
(* Model of modelplex: the model multiplexer (internal/multiplexer) and    *)
(* the MCP tool client (internal/mcp).                                     *)
(*                                                                         *)
(* SpecMux models multiplexer.New and the routed operations.               *)
(* SpecPayload and SpecTransport model the provider adapters.              *)
(* SpecServer models the HTTP server: Start, Stop and the routes.          *)
(* SpecMcp models the MCP client: StartServer, the handshake, the stdout   *)
(* reader, CallTool / callTool with its sender goroutine and select.       *)
(* SpecErrReply adds processes that answer with JSON-RPC errors.           *)
(* SpecProxy and SpecConfig model the HTTP handlers, SpecSink the writes   *)
(* of concurrent requests to one process, SpecLocks the locks of the MCP   *)
(* client.                                                                 *)
(***************************************************************************)
EXTENDS Integers, Sequences, FiniteSets, TLC

VARIABLES
    \* ---- multiplexer ----
    configs,      \* []config.Provider handed to New
    muxPc,        \* "start" before New has run, "ready" after
    providers,    \* ModelMultiplexer.providers: sequence of adapters
    modelMap,     \* ModelMultiplexer.modelMap: model name -> adapter
    last,         \* the last routed operation and what it returned
    \* ---- MCP client ----
    mcpConfigs,   \* []config.MCPServer handed to NewMCPClient (server names)
    nextCfg,      \* NewMCPClient: index of the next configuration to start
    pool,         \* Client.servers: the names of the servers in the map
    proc,         \* per server: "none", "running" or "exited"
    tools,        \* Server.tools: the tool registry of each server
    stdin,        \* per server: the requests written to its stdin
    replies,      \* per server: the lines the process has written to stdout
    readPos,      \* per server: how many of those lines handleOutput has read
    call,         \* per caller: the state of its CallTool invocation
    reader,       \* per server: handleOutput is "none", "running" or "stopped"
    oplog,        \* per server: what the client has done to the process, in order
    stop,         \* Client.Stop: where it is
    \* ---- provider adapter ----
    ad,           \* one adapter, the environment, and its last call
    \* ---- HTTP server ----
    srv,          \* one Server: its fields, its listener, Start and Stop
    \* ---- HTTP handlers ----
    px,           \* the configuration, the last request and its response
    \* ---- MCP client, at the grain of its locks and of its writes ----
    lk,           \* Client.mu, Server.mu and the goroutines that use them
    sink          \* the stdin pipe of one process and its writers

muxVars == <<configs, muxPc, providers, modelMap, last>>

mcpVars == <<mcpConfigs, nextCfg, pool, proc, tools, stdin, replies, readPos, call,
            reader, oplog, stop>>

vars == <<configs, muxPc, providers, modelMap, last,
          mcpConfigs, nextCfg, pool, proc, tools, stdin, replies, readPos, call,
          reader, oplog, stop, ad, srv, px, lk, sink>>

auxVars == <<px, lk, sink>>

extVars == <<ad, srv, px, lk, sink>>

(***************************************************************************)
(* Bounds and value sets                                                   *)
(***************************************************************************)
MaxConfigs == 2
Priorities == {1, 2}

\* model names a configuration may list, and the names a caller may ask for
ConfigModels == {"gpt-4", "claude-3"}
ModelNames == ConfigModels \cup {"llama2"}

SupportedKinds == {"openai", "anthropic", "ollama"}

\* the kinds the configurations are drawn from: two that NewProvider accepts
\* and one it does not
InputKinds == {"openai", "anthropic", "other"}

ConfigSet == [kind : InputKinds, models : SUBSET ConfigModels, priority : Priorities]
ConfigSeqs == UNION {[1..n -> ConfigSet] : n \in 0..MaxConfigs}

\* an adapter is identified by the index of the configuration it is built from
Nil == 0
NoErr == <<>>
NoResult == <<>>

\* a NewProvider that builds an adapter for every kind
NewProviderAnyKind(cfgs, k) == k

(***************************************************************************)
(* providers.NewProvider: nil for a kind that is not supported             *)
(***************************************************************************)
NewProvider(cfgs, k) ==
    IF cfgs[k].kind \in SupportedKinds THEN k ELSE Nil

Priority(cfgs, p) == cfgs[p].priority

(***************************************************************************)
(* New, lines 32-36: a model already in the map keeps its adapter          *)
(***************************************************************************)
AddModelsLastWins(mm, models, p) ==
    [x \in (DOMAIN mm) \cup models |-> IF x \in models THEN p ELSE mm[x]]

AddModels(mm, models, p) ==
    [x \in (DOMAIN mm) \cup models |-> IF x \in DOMAIN mm THEN mm[x] ELSE p]

EmptyMap == [x \in {} |-> Nil]

\* New, lines 26-38: the loop over the configurations
RECURSIVE NewLoop(_, _, _)
NewLoop(cfgs, k, m) ==
    IF k > Len(cfgs) THEN m
    ELSE LET provider == NewProvider(cfgs, k) IN
         IF provider # Nil
         THEN NewLoop(cfgs, k + 1,
                      [providers |-> Append(m.providers, provider),
                       modelMap |-> AddModels(m.modelMap, cfgs[k].models, provider)])
         ELSE NewLoop(cfgs, k + 1, m)

(***************************************************************************)
(* sort.Slice with less = Priority(i) < Priority(j).  sort.Slice is not    *)
(* stable: any arrangement of the elements that is ascending by priority   *)
(* is a permitted outcome.                                                 *)
(***************************************************************************)
IsAscending(cfgs, q) ==
    \A i, j \in 1..Len(q) : i < j => ~(Priority(cfgs, q[j]) < Priority(cfgs, q[i]))

Rearrangements(ps) ==
    IF Len(ps) = 0 THEN {<<>>}
    ELSE {[i \in 1..Len(ps) |-> ps[f[i]]] : f \in Permutations(1..Len(ps))}

SortSliceSkipped(cfgs, ps) == {ps}

SortSlice(cfgs, ps) == {q \in Rearrangements(ps) : IsAscending(cfgs, q)}

(***************************************************************************)
(* ModelMultiplexer.GetProvider                                            *)
(***************************************************************************)
NoProviderErr(model) == <<"no provider available for model", model>>

GetProviderFallbackOnly(model) ==
    IF Len(providers) > 0
    THEN [provider |-> providers[1], err |-> NoErr]
    ELSE [provider |-> Nil, err |-> NoProviderErr(model)]

GetProvider(model) ==
    IF model \in DOMAIN modelMap
    THEN [provider |-> modelMap[model], err |-> NoErr]
    ELSE IF Len(providers) > 0
         THEN [provider |-> providers[1], err |-> NoErr]
         ELSE [provider |-> Nil, err |-> NoProviderErr(model)]

(***************************************************************************)
(* What an adapter returns: a document on success, an error otherwise.     *)
(* The backend decides which; both carry the adapter that produced them.   *)
(***************************************************************************)
Outcomes == {"ok", "err"}

AdapterCall(p, op, model, out) ==
    [adapter |-> p, op |-> op, model |-> model,
     result |-> IF out = "ok" THEN <<"doc", p, op, model>> ELSE NoResult,
     err |-> IF out = "err" THEN <<"provider error", p>> ELSE NoErr]

NoLast == [op |-> "none", model |-> "", provider |-> Nil, models |-> <<>>,
           result |-> NoResult, err |-> NoErr, invoked |-> <<>>]

(***************************************************************************)
(* Actions of the multiplexer                                              *)
(***************************************************************************)
New ==
    /\ muxPc = "start"
    /\ LET m == NewLoop(configs, 1, [providers |-> <<>>, modelMap |-> EmptyMap]) IN
       /\ \E sorted \in SortSlice(configs, m.providers) : providers' = sorted
       /\ modelMap' = m.modelMap
    /\ muxPc' = "ready"
    /\ UNCHANGED <<configs, last>>
    /\ UNCHANGED mcpVars
    /\ UNCHANGED extVars

GetProviderCall(model) ==
    /\ muxPc = "ready"
    /\ LET r == GetProvider(model) IN
       last' = [NoLast EXCEPT !.op = "GetProvider", !.model = model,
                              !.provider = r.provider, !.err = r.err]
    /\ UNCHANGED <<configs, muxPc, providers, modelMap>>
    /\ UNCHANGED mcpVars
    /\ UNCHANGED extVars

\* the slices that hold every element of S once
SetToSeqs(S) ==
    {q \in [1..Cardinality(S) -> S] : \A i, j \in DOMAIN q : i # j => q[i] # q[j]}

\* a ListModels that appends every model a second time
ListModelsTwice == {q \o q : q \in SetToSeqs(DOMAIN modelMap)}

\* ModelMultiplexer.ListModels: one append per key of modelMap, in the
\* order the range over the map yields the keys, which is unspecified
ListModelsResults == SetToSeqs(DOMAIN modelMap)

ListModels ==
    /\ muxPc = "ready"
    /\ \E ms \in ListModelsResults :
           last' = [NoLast EXCEPT !.op = "ListModels", !.models = ms]
    /\ UNCHANGED <<configs, muxPc, providers, modelMap>>
    /\ UNCHANGED mcpVars
    /\ UNCHANGED extVars

\* a routed call that, after an adapter error, tries the next adapter
RoutedWithRetry(op, model) ==
    /\ muxPc = "ready"
    /\ LET r == GetProvider(model) IN
       IF r.err # NoErr
       THEN last' = [NoLast EXCEPT !.op = op, !.model = model, !.err = r.err]
       ELSE \E out \in Outcomes :
              LET a == AdapterCall(r.provider, op, model, out) IN
              IF out = "err" /\ Len(providers) > 1
              THEN \E out2 \in Outcomes :
                     LET other == CHOOSE q \in 1..Len(providers) :
                                      providers[q] # r.provider
                         b == AdapterCall(providers[other], op, model, out2) IN
                     last' = [NoLast EXCEPT !.op = op, !.model = model,
                                            !.result = b.result, !.err = b.err,
                                            !.invoked = <<a, b>>]
              ELSE last' = [NoLast EXCEPT !.op = op, !.model = model,
                                          !.result = a.result, !.err = a.err,
                                          !.invoked = <<a>>]
    /\ UNCHANGED <<configs, muxPc, providers, modelMap>>
    /\ UNCHANGED mcpVars
    /\ UNCHANGED extVars

\* a routed call that moves an adapter that failed to the end of the list
RoutedDemotesOnError(op, model) ==
    /\ muxPc = "ready"
    /\ LET r == GetProvider(model) IN
       IF r.err # NoErr
       THEN /\ last' = [NoLast EXCEPT !.op = op, !.model = model, !.err = r.err]
            /\ providers' = providers
       ELSE \E out \in Outcomes :
              LET a == AdapterCall(r.provider, op, model, out) IN
              /\ last' = [NoLast EXCEPT !.op = op, !.model = model,
                                        !.result = a.result, !.err = a.err,
                                        !.invoked = <<a>>]
              /\ providers' =
                     IF out = "err"
                     THEN Append(SelectSeq(providers, LAMBDA q : q # r.provider),
                                 r.provider)
                     ELSE providers
    /\ UNCHANGED <<configs, muxPc, modelMap>>
    /\ UNCHANGED mcpVars
    /\ UNCHANGED extVars

\* ChatCompletion and Completion have the same body up to the adapter method
Routed(op, model) ==
    /\ muxPc = "ready"
    /\ LET r == GetProvider(model) IN
       IF r.err # NoErr
       THEN last' = [NoLast EXCEPT !.op = op, !.model = model, !.err = r.err]
       ELSE \E out \in Outcomes :
              LET a == AdapterCall(r.provider, op, model, out) IN
              last' = [NoLast EXCEPT !.op = op, !.model = model,
                                     !.result = a.result, !.err = a.err,
                                     !.invoked = <<a>>]
    /\ UNCHANGED <<configs, muxPc, providers, modelMap>>
    /\ UNCHANGED mcpVars
    /\ UNCHANGED extVars

ChatCompletion(model) == Routed("ChatCompletion", model)

Completion(model) == Routed("Completion", model)

(***************************************************************************)
(* The MCP client                                                          *)
(***************************************************************************)
MaxCalls == 2

\* the server names a configuration may use, and the tools each process
\* answers tools/list with
Servers == {"s1", "s2"}
ToolNames == {"echo", "time"}
ProcTools == [s \in Servers |-> IF s = "s1" THEN {"echo"} ELSE {"echo", "time"}]

Callers == 1..MaxCalls

\* the result a process puts in its response to the i-th request it has
\* received, a tools/call request for the tool name
ToolResult(i, name) == <<"result", name, i>>

mcpInitializeRequestID == 1
mcpListToolsRequestID == 2
mcpCallToolRequestID == 99

InitializeRequest ==
    [id |-> mcpInitializeRequestID, method |-> "initialize", tool |-> "", caller |-> 0]

ListToolsRequest ==
    [id |-> mcpListToolsRequestID, method |-> "tools/list", tool |-> "", caller |-> 0]

\* callTool, lines 264-272: the request of a tool call
CallToolRequest(c, name) ==
    [id |-> mcpCallToolRequestID, method |-> "tools/call", tool |-> name, caller |-> c]

\* callTool, line 286: the document the goroutine hands to the caller
FabricatedSuccess == <<"success", TRUE>>

IdleCall ==
    [pc |-> "idle", server |-> "", tool |-> "", id |-> 0, ctxDone |-> FALSE,
     sender |-> "none", attempts |-> 0, respChan |-> <<>>, errChan |-> <<>>,
     outcome |-> "none", ret |-> <<>>, err |-> "", returns |-> 0,
     scanned |-> {}, offered |-> {}]

\* callers that hold the read lock of Client.mu (CallTool, lines 241-242)
InCall == {c \in Callers : call[c].pc \in {"scan", "wait"}}

\* the index in stdin[s] of the request caller c has written, 0 if none
RequestOf(s, c) ==
    IF \E i \in DOMAIN stdin[s] : stdin[s][i].caller = c
    THEN CHOOSE i \in DOMAIN stdin[s] : stdin[s][i].caller = c
    ELSE 0

\* the responses the process has emitted to the request at index i of stdin[s]
RepliesTo(s, i) == {k \in DOMAIN replies[s] : replies[s][k].req = i}

\* an entry of oplog: a goroutine started, a request written, or a step of Stop
Event(op, arg, err) == [op |-> op, arg |-> arg, err |-> err]

\* Stop has closed the stdin of server s (Stop, line 306)
Closed(s) == \E i \in DOMAIN oplog[s] : oplog[s][i].op = "close"

StopIdle == [pc |-> "idle", cur |-> "", next |-> "close", done |-> {}]

(***************************************************************************)
(* Client.StartServer, called by NewMCPClient for each configuration in    *)
(* order.  It holds Client.mu for its whole body.  how is what the         *)
(* operating system does: the spawn fails, the process exits before the    *)
(* initialize or before the tools/list request is written, or both writes  *)
(* succeed.                                                                *)
(***************************************************************************)
StartOutcomes == {"spawnError", "initializeWriteError", "listWriteError", "started"}

\* a handshake that sends tools/list first, and sends it whatever happened
\* to initialize
HandshakeWritesListFirst(how) ==
    CASE how = "initializeWriteError" -> <<ListToolsRequest>>
      [] how = "listWriteError" -> <<InitializeRequest>>
      [] OTHER -> <<ListToolsRequest, InitializeRequest>>

\* Server.initialize: the requests that reach the stdin of the process
HandshakeWrites(how) ==
    CASE how = "initializeWriteError" -> <<>>
      [] how = "listWriteError" -> <<InitializeRequest>>
      [] OTHER -> <<InitializeRequest, ListToolsRequest>>

\* StartServer, lines 122-125: the two readers are started, then initialize
StartLog(how) ==
    <<Event("go", "handleOutput", FALSE), Event("go", "handleErrors", FALSE)>>
    \o [i \in 1..Len(HandshakeWrites(how)) |->
            Event("write", HandshakeWrites(how)[i].method, FALSE)]

StartServer(how) ==
    /\ nextCfg <= Len(mcpConfigs)
    /\ InCall = {}
    /\ LET s == mcpConfigs[nextCfg] IN
       /\ nextCfg' = nextCfg + 1
       /\ IF how = "spawnError"
          THEN UNCHANGED <<pool, proc, stdin, reader, oplog>>
          ELSE /\ pool' = pool \cup {s}
               /\ proc' = [proc EXCEPT ![s] =
                              IF how = "started" THEN "running" ELSE "exited"]
               /\ stdin' = [stdin EXCEPT ![s] = HandshakeWrites(how)]
               /\ reader' = [reader EXCEPT ![s] = "running"]
               /\ oplog' = [oplog EXCEPT ![s] = StartLog(how)]
    /\ UNCHANGED <<mcpConfigs, tools, replies, readPos, call, stop>>
    /\ UNCHANGED muxVars
    /\ UNCHANGED extVars

(***************************************************************************)
(* The tool process: it answers a request it has received and not yet      *)
(* answered, in any order.  A process that has exited answers nothing; the *)
(* client sees the exit only as a failing write (SenderWrite).             *)
(***************************************************************************)
ResponseTo(s, i) ==
    LET req == stdin[s][i] IN
    [id |-> req.id, kind |-> "result", req |-> i,
     tools |-> IF req.method = "tools/list" THEN ProcTools[s] ELSE {},
     isToolList |-> req.method = "tools/list",
     payload |-> IF req.method = "tools/call" THEN ToolResult(i, req.tool) ELSE <<>>]

ProcessReply(s, i) ==
    /\ proc[s] = "running"
    /\ i \in DOMAIN stdin[s]
    /\ RepliesTo(s, i) = {}
    /\ replies' = [replies EXCEPT ![s] = Append(@, ResponseTo(s, i))]
    /\ UNCHANGED <<mcpConfigs, nextCfg, pool, proc, tools, stdin, readPos, call>>
    /\ UNCHANGED <<reader, oplog, stop>>
    /\ UNCHANGED muxVars
    /\ UNCHANGED extVars

\* a JSON-RPC error response to the request at index i of stdin[s]; the
\* response to tools/list has, beside its error member, a result member
\* with the tools of the process
ErrorResponseTo(s, i) == [ResponseTo(s, i) EXCEPT !.kind = "error"]

\* the process answers a request with an error response
ProcessReplyError(s, i) ==
    /\ proc[s] = "running"
    /\ i \in DOMAIN stdin[s]
    /\ RepliesTo(s, i) = {}
    /\ replies' = [replies EXCEPT ![s] = Append(@, ErrorResponseTo(s, i))]
    /\ UNCHANGED <<mcpConfigs, nextCfg, pool, proc, tools, stdin, readPos, call>>
    /\ UNCHANGED <<reader, oplog, stop>>
    /\ UNCHANGED muxVars
    /\ UNCHANGED extVars

\* the process stops reading its stdin and answers nothing any more; a
\* write to its stdin then blocks
ProcessStall(s) ==
    /\ proc[s] = "running"
    /\ proc' = [proc EXCEPT ![s] = "stalled"]
    /\ UNCHANGED <<mcpConfigs, nextCfg, pool, tools, stdin, replies, readPos, call>>
    /\ UNCHANGED <<reader, oplog, stop>>
    /\ UNCHANGED muxVars
    /\ UNCHANGED extVars

\* lines a process may write that answer no request: a second tools/list
\* result with other tools, a result with the ID of the tool calls, a line
\* that is no JSON, and a line longer than the scanner's buffer
\* (bufio.MaxScanTokenSize)
StrayLines ==
    {[id |-> mcpListToolsRequestID, kind |-> "result", req |-> 0,
      tools |-> {"time"}, isToolList |-> TRUE, payload |-> <<>>],
     [id |-> mcpCallToolRequestID, kind |-> "result", req |-> 0,
      tools |-> {}, isToolList |-> FALSE, payload |-> <<"stray">>],
     [id |-> 0, kind |-> "malformed", req |-> 0,
      tools |-> {}, isToolList |-> FALSE, payload |-> <<>>],
     [id |-> 0, kind |-> "tooLong", req |-> 0,
      tools |-> {}, isToolList |-> FALSE, payload |-> <<>>]}

\* the process writes one of them, each at most once
ProcessEmit(s, line) ==
    /\ proc[s] = "running"
    /\ \A k \in DOMAIN replies[s] : replies[s][k] # line
    /\ replies' = [replies EXCEPT ![s] = Append(@, line)]
    /\ UNCHANGED <<mcpConfigs, nextCfg, pool, proc, tools, stdin, readPos, call>>
    /\ UNCHANGED <<reader, oplog, stop>>
    /\ UNCHANGED muxVars
    /\ UNCHANGED extVars

(***************************************************************************)
(* Server.handleResponse                                                   *)
(***************************************************************************)
\* a handleResponse that does not look at the error member
handleResponseIgnoresError(s, resp) ==
    IF resp.id = mcpListToolsRequestID /\ resp.isToolList THEN resp.tools
    ELSE tools[s]

handleResponse(s, resp) ==
    IF resp.kind = "error" THEN tools[s]
    ELSE IF resp.id = mcpListToolsRequestID /\ resp.isToolList THEN resp.tools
    ELSE tools[s]

\* Server.handleOutput: one iteration of the scanner loop.  scanner.Scan
\* returns false for a line that does not fit its buffer, which ends the
\* loop; a line json.Unmarshal rejects is skipped.
HandleOutput(s) ==
    /\ s \in pool
    /\ reader[s] = "running"
    /\ readPos[s] < Len(replies[s])
    /\ LET line == replies[s][readPos[s] + 1] IN
       IF line.kind = "tooLong"
       THEN /\ reader' = [reader EXCEPT ![s] = "stopped"]
            /\ UNCHANGED <<readPos, tools>>
       ELSE /\ readPos' = [readPos EXCEPT ![s] = @ + 1]
            /\ tools' = IF line.kind = "malformed" THEN tools
                        ELSE [tools EXCEPT ![s] = handleResponse(s, line)]
            /\ UNCHANGED reader
    /\ UNCHANGED <<mcpConfigs, nextCfg, pool, proc, stdin, replies, call>>
    /\ UNCHANGED <<oplog, stop>>
    /\ UNCHANGED muxVars
    /\ UNCHANGED extVars

(***************************************************************************)
(* Client.CallTool: the scan over c.servers, a Go map, whose iteration     *)
(* order is unspecified, so the servers are looked at in any order.  Each  *)
(* iteration reads one registry under that server's lock.  ctxDone is the  *)
(* state of the caller's context when Server.callTool is entered.          *)
(***************************************************************************)
NotFound(k) ==
    [k EXCEPT !.pc = "done", !.outcome = "NotFound", !.err = "tool not found"]

\* an iteration that dispatches to the server it looks at whatever its
\* registry holds
ScanResultAnyServer(c, k, s, ctxDone) ==
    [k EXCEPT !.pc = "wait", !.server = s,
              !.id = CallToolRequest(c, k.tool).id,
              !.ctxDone = ctxDone, !.sender = "write"]

\* CallTool, lines 244-258: one iteration of the loop, looking at server s
\* (with Server.callTool, lines 264-287: the channels and the goroutine)
ScanResult(c, k, s, ctxDone) ==
    IF k.tool \in tools[s]
    THEN [k EXCEPT !.pc = "wait", !.server = s,
                   !.id = CallToolRequest(c, k.tool).id,
                   !.ctxDone = ctxDone, !.sender = "write"]
    ELSE IF pool \ (k.scanned \cup {s}) = {}
         THEN NotFound(k)
         ELSE [k EXCEPT !.pc = "scan", !.scanned = @ \cup {s}]

\* CallTool from its entry to the end of the first iteration of its loop
CallTool(c, name, ctxDone) ==
    /\ call[c].pc = "idle"
    /\ \A b \in Callers : b < c => call[b].pc # "idle"
    /\ nextCfg > Len(mcpConfigs)
    /\ stop.pc \in {"idle", "done"}
    /\ LET k == [call[c] EXCEPT !.tool = name,
                                !.offered = {s \in pool : name \in tools[s]}] IN
       IF pool = {}
       THEN call' = [call EXCEPT ![c] = NotFound(k)]
       ELSE \E s \in pool : call' = [call EXCEPT ![c] = ScanResult(c, k, s, ctxDone)]
    /\ UNCHANGED <<mcpConfigs, nextCfg, pool, proc, tools, stdin, replies, readPos>>
    /\ UNCHANGED <<reader, oplog, stop>>
    /\ UNCHANGED muxVars
    /\ UNCHANGED extVars

\* a later iteration of the loop of CallTool
ScanNext(c, ctxDone) ==
    /\ call[c].pc = "scan"
    /\ \E s \in pool \ call[c].scanned :
           call' = [call EXCEPT ![c] = ScanResult(c, call[c], s, ctxDone)]
    /\ UNCHANGED <<mcpConfigs, nextCfg, pool, proc, tools, stdin, replies, readPos>>
    /\ UNCHANGED <<reader, oplog, stop>>
    /\ UNCHANGED muxVars
    /\ UNCHANGED extVars

\* a write that succeeds on a closed stdin
SenderWriteAfterClose(c, exited) ==
    /\ call[c].sender = "write"
    /\ LET s == call[c].server IN
       /\ Closed(s) \/ exited \/ proc[s] # "stalled"
       /\ IF ~exited
          THEN /\ stdin' = [stdin EXCEPT ![s] = Append(@, CallToolRequest(c, call[c].tool))]
               /\ oplog' = [oplog EXCEPT ![s] = Append(@, Event("write", "tools/call", FALSE))]
               /\ call' = [call EXCEPT ![c] =
                      [@ EXCEPT !.sender = "wrote", !.attempts = @ + 1]]
               /\ UNCHANGED proc
          ELSE /\ call' = [call EXCEPT ![c] =
                      [@ EXCEPT !.sender = "writeFailed", !.attempts = @ + 1]]
               /\ proc' = [proc EXCEPT ![s] = "exited"]
               /\ UNCHANGED <<stdin, oplog>>
    /\ UNCHANGED <<mcpConfigs, nextCfg, pool, tools, replies, readPos>>
    /\ UNCHANGED <<reader, stop>>
    /\ UNCHANGED muxVars
    /\ UNCHANGED extVars

\* the goroutine of callTool, line 280: sendRequest.  The write fails when
\* stdin is closed or the process has exited (exited: it is found to have
\* exited by this write), and blocks while the process does not read.
SenderWrite(c, exited) ==
    /\ call[c].sender = "write"
    /\ LET s == call[c].server IN
       /\ Closed(s) \/ exited \/ proc[s] # "stalled"
       /\ IF proc[s] = "running" /\ ~exited /\ ~Closed(s)
          THEN /\ stdin' = [stdin EXCEPT ![s] = Append(@, CallToolRequest(c, call[c].tool))]
               /\ oplog' = [oplog EXCEPT ![s] = Append(@, Event("write", "tools/call", FALSE))]
               /\ call' = [call EXCEPT ![c] =
                      [@ EXCEPT !.sender = "wrote", !.attempts = @ + 1]]
               /\ UNCHANGED proc
          ELSE /\ call' = [call EXCEPT ![c] =
                      [@ EXCEPT !.sender = "writeFailed", !.attempts = @ + 1]]
               /\ proc' = IF Closed(s) /\ ~exited THEN proc
                          ELSE [proc EXCEPT ![s] = "exited"]
               /\ UNCHANGED <<stdin, oplog>>
    /\ UNCHANGED <<mcpConfigs, nextCfg, pool, tools, replies, readPos>>
    /\ UNCHANGED <<reader, stop>>
    /\ UNCHANGED muxVars
    /\ UNCHANGED extVars

\* callTool, lines 275-276: make(chan interface{}, 1), make(chan error, 1)
ChanCap == 1

\* a channel without a buffer has no room
HasRoomUnbuffered(ch) == Len(ch) < 0

\* the buffer of the channel takes one more value
HasRoom(ch) == Len(ch) < ChanCap

\* a send on the channel does not block: there is room in the buffer, or
\* the caller is in its select ready to receive
CanSend(c, ch) == HasRoom(ch) \/ call[c].pc = "wait"

\* the goroutine of callTool, lines 281 and 286: its one channel send
SenderDeliver(c) ==
    /\ call[c].sender \in {"wrote", "writeFailed"}
    /\ CanSend(c, IF call[c].sender = "wrote" THEN call[c].respChan
                  ELSE call[c].errChan)
    /\ call' = [call EXCEPT ![c] =
           IF call[c].sender = "wrote"
           THEN [@ EXCEPT !.sender = "done", !.respChan = Append(@, FabricatedSuccess)]
           ELSE [@ EXCEPT !.sender = "done", !.errChan = Append(@, "write error")]]
    /\ UNCHANGED <<mcpConfigs, nextCfg, pool, proc, tools, stdin, replies, readPos>>
    /\ UNCHANGED <<reader, oplog, stop>>
    /\ UNCHANGED muxVars
    /\ UNCHANGED extVars

\* the caller's context is cancelled while it waits
Cancel(c) ==
    /\ call[c].pc = "wait"
    /\ ~call[c].ctxDone
    /\ call' = [call EXCEPT ![c] = [@ EXCEPT !.ctxDone = TRUE]]
    /\ UNCHANGED <<mcpConfigs, nextCfg, pool, proc, tools, stdin, replies, readPos>>
    /\ UNCHANGED <<reader, oplog, stop>>
    /\ UNCHANGED muxVars
    /\ UNCHANGED extVars

\* the ways the select of callTool, lines 290-297, can return
SelectCases(c) ==
    (IF call[c].ctxDone
        THEN {[outcome |-> "Cancelled", ret |-> <<>>, err |-> "context canceled"]}
        ELSE {})
    \cup (IF call[c].errChan # <<>>
             THEN {[outcome |-> "Failed", ret |-> <<>>, err |-> call[c].errChan[1]]}
             ELSE {})
    \cup (IF call[c].respChan # <<>>
             THEN {[outcome |-> "Completed", ret |-> call[c].respChan[1], err |-> ""]}
             ELSE {})

\* a select that hands the cancellation to the caller and goes on waiting
\* for the goroutine
SelectKeepsWaiting(c) ==
    /\ call[c].pc = "wait"
    /\ \E r \in SelectCases(c) :
         call' = [call EXCEPT ![c] =
             [@ EXCEPT !.pc = IF r.outcome = "Cancelled" THEN "wait" ELSE "done",
                       !.outcome = r.outcome, !.ret = r.ret,
                       !.err = r.err, !.returns = @ + 1,
                       !.respChan = IF r.outcome = "Completed" THEN Tail(@) ELSE @,
                       !.errChan = IF r.outcome = "Failed" THEN Tail(@) ELSE @]]
    /\ UNCHANGED <<mcpConfigs, nextCfg, pool, proc, tools, stdin, replies, readPos>>
    /\ UNCHANGED <<reader, oplog, stop>>
    /\ UNCHANGED muxVars
    /\ UNCHANGED extVars

\* a select that tells the process of the cancellation before it returns
SelectNotifiesOnCancel(c) ==
    /\ call[c].pc = "wait"
    /\ \E r \in SelectCases(c) :
         /\ call' = [call EXCEPT ![c] =
               [@ EXCEPT !.pc = "done", !.outcome = r.outcome, !.ret = r.ret,
                         !.err = r.err, !.returns = @ + 1,
                         !.respChan = IF r.outcome = "Completed" THEN Tail(@) ELSE @,
                         !.errChan = IF r.outcome = "Failed" THEN Tail(@) ELSE @]]
         /\ stdin' = IF r.outcome = "Cancelled"
                     THEN [stdin EXCEPT ![call[c].server] =
                              Append(@, [id |-> mcpCallToolRequestID,
                                         method |-> "notifications/cancelled",
                                         tool |-> call[c].tool, caller |-> c])]
                     ELSE stdin
    /\ UNCHANGED <<mcpConfigs, nextCfg, pool, proc, tools, replies, readPos>>
    /\ UNCHANGED <<reader, oplog, stop>>
    /\ UNCHANGED muxVars
    /\ UNCHANGED extVars

\* callTool, lines 290-297: the select takes one ready case, a channel
\* receive removes the value from the channel, and callTool returns
Select(c) ==
    /\ call[c].pc = "wait"
    /\ \E r \in SelectCases(c) :
         call' = [call EXCEPT ![c] =
             [@ EXCEPT !.pc = "done", !.outcome = r.outcome, !.ret = r.ret,
                       !.err = r.err, !.returns = @ + 1,
                       !.respChan = IF r.outcome = "Completed" THEN Tail(@) ELSE @,
                       !.errChan = IF r.outcome = "Failed" THEN Tail(@) ELSE @]]
    /\ UNCHANGED <<mcpConfigs, nextCfg, pool, proc, tools, stdin, replies, readPos>>
    /\ UNCHANGED <<reader, oplog, stop>>
    /\ UNCHANGED muxVars
    /\ UNCHANGED extVars

(***************************************************************************)
(* Client.Stop.  It takes the write lock of Client.mu, which it gets only  *)
(* when no CallTool holds the read lock, and then, for each server of the  *)
(* map in any order, closes stdin, kills the process and waits for it.     *)
(* An error of a step is logged and nothing else.                          *)
(***************************************************************************)
\* Stop is called and blocks in c.mu.Lock (line 302)
StopBegin ==
    /\ stop.pc = "idle"
    /\ nextCfg > Len(mcpConfigs)
    /\ stop' = [stop EXCEPT !.pc = "lock"]
    /\ UNCHANGED <<mcpConfigs, nextCfg, pool, proc, tools, stdin, replies, readPos>>
    /\ UNCHANGED <<call, reader, oplog>>
    /\ UNCHANGED muxVars
    /\ UNCHANGED extVars

\* c.mu.Lock returns
StopAcquire ==
    /\ stop.pc = "lock"
    /\ InCall = {}
    /\ stop' = [stop EXCEPT !.pc = "teardown"]
    /\ UNCHANGED <<mcpConfigs, nextCfg, pool, proc, tools, stdin, replies, readPos>>
    /\ UNCHANGED <<call, reader, oplog>>
    /\ UNCHANGED muxVars
    /\ UNCHANGED extVars

NextStep(step) == IF step = "close" THEN "kill" ELSE "wait"

\* a Stop that gives up at the first step that fails
StopStepReturnsOnError(s, err) ==
    /\ stop.pc = "teardown"
    /\ s \in pool \ stop.done
    /\ stop.cur \in {"", s}
    /\ stop.next = "close" => ~err
    /\ stop.next = "kill" => (err <=> proc[s] = "exited")
    /\ oplog' = [oplog EXCEPT ![s] = Append(@, Event(stop.next, "", err))]
    /\ proc' = IF stop.next = "kill" THEN [proc EXCEPT ![s] = "exited"] ELSE proc
    /\ stop' = IF err THEN [stop EXCEPT !.pc = "done"]
               ELSE IF stop.next = "wait"
               THEN [stop EXCEPT !.cur = "", !.next = "close", !.done = @ \cup {s}]
               ELSE [stop EXCEPT !.cur = s, !.next = NextStep(stop.next)]
    /\ UNCHANGED <<mcpConfigs, nextCfg, pool, tools, stdin, replies, readPos>>
    /\ UNCHANGED <<call, reader>>
    /\ UNCHANGED muxVars
    /\ UNCHANGED extVars

\* Stop, lines 305-315: the next of the three steps for server s; err is
\* whether the step returns an error: Close does not (nothing else closes
\* stdin), Kill does when the process has already exited, Wait may
StopStep(s, err) ==
    /\ stop.pc = "teardown"
    /\ s \in pool \ stop.done
    /\ stop.cur \in {"", s}
    /\ stop.next = "close" => ~err
    /\ stop.next = "kill" => (err <=> proc[s] = "exited")
    /\ oplog' = [oplog EXCEPT ![s] = Append(@, Event(stop.next, "", err))]
    /\ proc' = IF stop.next = "kill" THEN [proc EXCEPT ![s] = "exited"] ELSE proc
    /\ stop' = IF stop.next = "wait"
               THEN [stop EXCEPT !.cur = "", !.next = "close", !.done = @ \cup {s}]
               ELSE [stop EXCEPT !.cur = s, !.next = NextStep(stop.next)]
    /\ UNCHANGED <<mcpConfigs, nextCfg, pool, tools, stdin, replies, readPos>>
    /\ UNCHANGED <<call, reader>>
    /\ UNCHANGED muxVars
    /\ UNCHANGED extVars

\* the loop of Stop is over, the lock is released and Stop returns
StopReturn ==
    /\ stop.pc = "teardown"
    /\ stop.done = pool
    /\ stop' = [stop EXCEPT !.pc = "done"]
    /\ UNCHANGED <<mcpConfigs, nextCfg, pool, proc, tools, stdin, replies, readPos>>
    /\ UNCHANGED <<call, reader, oplog>>
    /\ UNCHANGED muxVars
    /\ UNCHANGED extVars

(***************************************************************************)
(* The provider adapters (internal/providers).  API keys, environment      *)
(* variable names and values are strings, modelled as sequences of         *)
(* characters.                                                             *)
(***************************************************************************)
HasPrefix(str, pre) == Len(str) >= Len(pre) /\ SubSeq(str, 1, Len(pre)) = pre

HasSuffix(str, suf) ==
    Len(str) >= Len(suf) /\ SubSeq(str, Len(str) - Len(suf) + 1, Len(str)) = suf

TrimPrefix(str, pre) ==
    IF HasPrefix(str, pre) THEN SubSeq(str, Len(pre) + 1, Len(str)) ELSE str

TrimSuffix(str, suf) ==
    IF HasSuffix(str, suf) THEN SubSeq(str, 1, Len(str) - Len(suf)) ELSE str

\* os.Getenv: the empty string for a variable that is not set
Getenv(env, name) == IF name \in DOMAIN env THEN env[name] ELSE <<>>

\* NewOpenAIProvider / NewAnthropicProvider: the apiKey field
ResolveKey(cfgKey, env) ==
    IF HasPrefix(cfgKey, <<"$", "{">>) /\ HasSuffix(cfgKey, <<"}">>)
    THEN Getenv(env, TrimSuffix(TrimPrefix(cfgKey, <<"$", "{">>), <<"}">>))
    ELSE cfgKey

\* the configured api_key values: ${A}, ${B}, k, ${A without the brace, the
\* empty string, and ${}
CfgKeys ==
    {<<"$", "{", "A", "}">>, <<"$", "{", "B", "}">>, <<"k">>,
     <<"$", "{", "A">>, <<>>, <<"$", "{", "}">>}

\* the environment: variable A is unset or has one of two values; no other
\* variable is set
EnvValues == {<<"x">>, <<"y">>}
NoEnv == [n \in {} |-> <<>>]
Envs == {NoEnv} \cup {[n \in {<<"A">>} |-> v] : v \in EnvValues}

\* a message as decoded from the JSON of the caller: map[string]interface{}.
\* Absent is a key that is missing, NotString a value that is no string.
Absent == "<absent>"
NotString == "<not a string>"
IsString(v) == v \notin {Absent, NotString}

MaxMsgs == 2
Messages ==
    [role : {"system", "user", Absent},
     content : {"a", "", NotString},
     name : {Absent, "n"}]
MsgLists == UNION {[1..n -> Messages] : n \in 0..MaxMsgs}

\* two message lists, for the calls whose subject is the transport
FewLists ==
    {<<>>,
     <<[role |-> "system", content |-> "a", name |-> Absent],
       [role |-> "user", content |-> "b", name |-> Absent]>>}

Prompts == {"p"}

\* what the backend does with a request: an HTTP response with a status
\* and a body, or no response at all
Statuses == {200, 201, 204, 404, 500}
Bodies == {"{\"id\":1}", "{\"error\":\"x\"}", "<html>"}
NetErr == [kind |-> "neterr", status |-> 0, body |-> ""]
Responses == {[kind |-> "http", status |-> st, body |-> b] :
                 st \in Statuses, b \in Bodies} \cup {NetErr}
OkResponse == [kind |-> "http", status |-> 200, body |-> "{\"id\":1}"]

\* json.Unmarshal of a response body into interface{}
ValidJSON(body) == body \in {"{\"id\":1}", "{\"error\":\"x\"}"}
Unmarshal(body) == <<"document", body>>

\* the headers makeRequest sets
Headers(kind, key) ==
    {<<"Content-Type", <<"application/json">>>>}
    \cup (IF kind = "openai"
             THEN {<<"Authorization", <<"Bearer ">> \o key>>} ELSE {})
    \cup (IF kind = "anthropic"
             THEN {<<"x-api-key", key>>, <<"anthropic-version", <<"2023-06-01">>>>}
             ELSE {})

\* makeRequest: resp.StatusCode != http.StatusOK
StatusOK(status) == status = 200

\* makeRequest of the three adapters: the request it sends and what it
\* returns for the answer resp of the backend
makeRequest(kind, key, endpoint, payload, resp) ==
    [panicked |-> FALSE,
     request |-> <<[endpoint |-> endpoint, headers |-> Headers(kind, key),
                    body |-> payload]>>,
     result |-> IF resp.kind = "http" /\ StatusOK(resp.status) /\ ValidJSON(resp.body)
                THEN Unmarshal(resp.body) ELSE <<>>,
     err |-> CASE resp.kind = "neterr" -> <<"client.Do", 0, "">>
               [] ~StatusOK(resp.status) ->
                      <<"API request failed with status", resp.status, resp.body>>
               [] ~ValidJSON(resp.body) -> <<"json.Unmarshal", 0, "">>
               [] OTHER -> <<>>]

\* ChatCompletion has panicked: nothing is sent and nothing is returned
Panicked == [panicked |-> TRUE, request |-> <<>>, result |-> <<>>, err |-> <<>>]

\* an Ollama payload without the stream field
OllamaPayloadNoStream(fields) == fields

\* OllamaProvider: the payload of both operations has "stream": false
OllamaPayload(fields) ==
    [k \in DOMAIN fields \cup {"stream"} |->
        IF k = "stream" THEN <<FALSE>> ELSE fields[k]]

\* AnthropicProvider.ChatCompletion, the loop: the type assertions
\* msg["role"].(string) and msg["content"].(string) panic for a missing key
\* and for a value that is no string
AnthropicPanics(msgs) ==
    \E i \in DOMAIN msgs : ~IsString(msgs[i].role) \/ ~IsString(msgs[i].content)

\* the messages the loop appends: role and content of every message whose
\* role is not system
AnthropicMessages(msgs) ==
    LET rest == SelectSeq(msgs, LAMBDA m : m.role # "system") IN
    [i \in 1..Len(rest) |->
        [role |-> rest[i].role, content |-> rest[i].content, name |-> Absent]]

\* systemMessage: the content of the last system message, "" without one
SystemMessage(msgs) ==
    LET sys == SelectSeq(msgs, LAMBDA m : m.role = "system") IN
    IF Len(sys) = 0 THEN "" ELSE sys[Len(sys)].content

AnthropicPayload(model, msgs) ==
    LET base == [model |-> <<model>>, messages |-> AnthropicMessages(msgs),
                 max_tokens |-> <<4096>>] IN
    IF SystemMessage(msgs) # ""
    THEN [k \in DOMAIN base \cup {"system"} |->
             IF k = "system" THEN <<SystemMessage(msgs)>> ELSE base[k]]
    ELSE base

\* ChatCompletion of the adapter of the given kind
AdapterChat(kind, key, model, msgs, resp) ==
    CASE kind = "openai" ->
           makeRequest(kind, key, "/chat/completions",
                       [model |-> <<model>>, messages |-> msgs], resp)
      [] kind = "ollama" ->
           makeRequest(kind, key, "/api/chat",
                       OllamaPayload([model |-> <<model>>, messages |-> msgs]), resp)
      [] OTHER ->
           IF AnthropicPanics(msgs) THEN Panicked
           ELSE makeRequest(kind, key, "/messages", AnthropicPayload(model, msgs), resp)

\* Completion of the adapter of the given kind
AdapterCompletion(kind, key, model, prompt, resp) ==
    CASE kind = "openai" ->
           makeRequest(kind, key, "/completions",
                       [model |-> <<model>>, prompt |-> <<prompt>>], resp)
      [] kind = "ollama" ->
           makeRequest(kind, key, "/api/generate",
                       OllamaPayload([model |-> <<model>>, prompt |-> <<prompt>>]), resp)
      [] OTHER ->
           AdapterChat(kind, key, model,
                       <<[role |-> "user", content |-> prompt, name |-> Absent]>>, resp)

\* no call has been made
NoCall ==
    [op |-> "none", msgs |-> <<>>, resp |-> NetErr,
     out |-> [panicked |-> FALSE, request |-> <<>>, result |-> <<>>, err |-> <<>>]]

AdIdle ==
    [pc |-> "idle", kind |-> "", cfgKey |-> <<>>, env |-> NoEnv,
     apiKey |-> <<>>, envAtNew |-> NoEnv, last |-> NoCall]

\* a credential looked up again for every request
CredentialAtRequest == ResolveKey(ad.cfgKey, ad.env)

\* the credential makeRequest puts into the header: the apiKey field (the
\* Ollama adapter has no such field)
Credential == IF ad.kind = "ollama" THEN <<>> ELSE ad.apiKey

\* NewProvider for a configuration of a supported kind
NewAdapter ==
    /\ ad.pc = "start"
    /\ ad' = [ad EXCEPT !.pc = "ready",
                        !.apiKey = IF ad.kind = "ollama" THEN <<>>
                                   ELSE ResolveKey(ad.cfgKey, ad.env),
                        !.envAtNew = ad.env]
    /\ UNCHANGED <<srv>>
    /\ UNCHANGED auxVars
    /\ UNCHANGED muxVars
    /\ UNCHANGED mcpVars

\* the environment of the process changes
SetEnv(env) ==
    /\ ad.pc # "idle"
    /\ env # ad.env
    /\ ad' = [ad EXCEPT !.env = env]
    /\ UNCHANGED <<srv>>
    /\ UNCHANGED auxVars
    /\ UNCHANGED muxVars
    /\ UNCHANGED mcpVars

\* ChatCompletion of the adapter. The adapter keeps nothing of a call, so
\* the state after a second call is the state after that call alone: one
\* call per behaviour reaches every state.
AdChat(model, msgs, resp) ==
    /\ ad.pc = "ready"
    /\ ad.last = NoCall
    /\ ad' = [ad EXCEPT !.last =
                 [op |-> "ChatCompletion", msgs |-> msgs, resp |-> resp,
                  out |-> AdapterChat(ad.kind, Credential, model, msgs, resp)]]
    /\ UNCHANGED <<srv>>
    /\ UNCHANGED auxVars
    /\ UNCHANGED muxVars
    /\ UNCHANGED mcpVars

\* Completion of the adapter, bounded as AdChat is
AdCompletion(model, prompt, resp) ==
    /\ ad.pc = "ready"
    /\ ad.last = NoCall
    /\ ad' = [ad EXCEPT !.last =
                 [op |-> "Completion", msgs |-> <<>>, resp |-> resp,
                  out |-> AdapterCompletion(ad.kind, Credential, model, prompt, resp)]]
    /\ UNCHANGED <<srv>>
    /\ UNCHANGED auxVars
    /\ UNCHANGED muxVars
    /\ UNCHANGED mcpVars

(***************************************************************************)
(* The HTTP server (internal/server): NewWithSocket / NewWithHTTP, Start   *)
(* in its own goroutine, Stop, and the routes of setupRoutes.              *)
(***************************************************************************)
Methods == {"GET", "POST"}

InternalPaths == {"/_internal/status", "/_internal/config", "/_internal/metrics"}

ModelPaths == {"/models/v1/chat/completions", "/models/v1/completions",
               "/models/v1/models"}

ToolCallPaths == {"/mcp/v1/tools/echo/call"}

Paths == InternalPaths \cup ModelPaths \cup ToolCallPaths
         \cup {"/health", "/mcp/v1/tools", "/v1/models", "/_internal", "/nope"}

HandleFunc(method, pattern, handler) ==
    [method |-> method, pattern |-> pattern, handler |-> handler]

\* the routes both modes have
CommonRoutes ==
    {HandleFunc("POST", "/models/v1/chat/completions", "HandleChatCompletions"),
     HandleFunc("POST", "/models/v1/completions", "HandleCompletions"),
     HandleFunc("GET", "/models/v1/models", "HandleModels"),
     HandleFunc("GET", "/mcp/v1/tools", "handleMCPTools"),
     HandleFunc("POST", "/mcp/v1/tools/{tool}/call", "handleMCPToolCall"),
     HandleFunc("GET", "/health", "handleHealth"),
     HandleFunc("POST", "/v1/chat/completions", "HandleChatCompletions"),
     HandleFunc("POST", "/v1/completions", "HandleCompletions"),
     HandleFunc("GET", "/v1/models", "HandleModels")}

InternalRoutes ==
    {HandleFunc("GET", "/_internal/status", "handleInternalStatus"),
     HandleFunc("GET", "/_internal/config", "handleInternalConfig"),
     HandleFunc("GET", "/_internal/metrics", "handleInternalMetrics")}

\* a setupRoutes that registers the internal routes in both modes
setupRoutesAlways(useSocket) == CommonRoutes \cup InternalRoutes

\* Server.setupRoutes
setupRoutes(useSocket) ==
    CommonRoutes \cup (IF ~useSocket THEN InternalRoutes ELSE {})

PathMatches(pattern, path) ==
    \/ pattern = path
    \/ pattern = "/mcp/v1/tools/{tool}/call" /\ path \in ToolCallPaths

\* the router: the handler of the route that matches, "405" when only the
\* method differs, "404" when no route has the path
Route(routes, method, path) ==
    LET byPath == {r \in routes : PathMatches(r.pattern, path)} IN
    IF byPath = {} THEN "404"
    ELSE IF \E r \in byPath : r.method = method
         THEN (CHOOSE r \in byPath : r.method = method).handler
         ELSE "405"

NoResp == [method |-> "", path |-> "", handler |-> ""]

SrvIdle ==
    [useSocket |-> TRUE, startPc |-> "none", stopPc |-> "none",
     listener |-> FALSE, server |-> FALSE, routes |-> {},
     file |-> FALSE, open |-> FALSE, shut |-> FALSE, resp |-> NoResp]

\* closing a listener: a Unix listener made by net.Listen also unlinks its
\* socket file
CloseListener(v) ==
    [v EXCEPT !.open = FALSE, !.file = IF v.useSocket /\ v.open THEN FALSE ELSE @]

\* Start, socket mode: os.RemoveAll(s.socketPath)
StartRemove(err) ==
    /\ srv.useSocket
    /\ srv.startPc = "idle"
    /\ srv' = IF err THEN [srv EXCEPT !.startPc = "returned"]
              ELSE [srv EXCEPT !.startPc = "listen", !.file = FALSE]
    /\ UNCHANGED <<ad>>
    /\ UNCHANGED auxVars
    /\ UNCHANGED muxVars
    /\ UNCHANGED mcpVars

\* Start: net.Listen
StartListen(err) ==
    /\ srv.startPc = (IF srv.useSocket THEN "listen" ELSE "idle")
    /\ srv.useSocket /\ srv.file => err
    /\ srv' = IF err THEN [srv EXCEPT !.startPc = "returned"]
              ELSE [srv EXCEPT !.startPc = "assign", !.open = TRUE,
                               !.file = srv.useSocket]
    /\ UNCHANGED <<ad>>
    /\ UNCHANGED auxVars
    /\ UNCHANGED muxVars
    /\ UNCHANGED mcpVars

\* Start: s.listener = listener
StartAssign ==
    /\ srv.startPc = "assign"
    /\ srv' = [srv EXCEPT !.startPc = "routes", !.listener = TRUE]
    /\ UNCHANGED <<ad>>
    /\ UNCHANGED auxVars
    /\ UNCHANGED muxVars
    /\ UNCHANGED mcpVars

\* Start: the router, setupRoutes, and s.server = &http.Server{...}
StartRoutes ==
    /\ srv.startPc = "routes"
    /\ srv' = [srv EXCEPT !.startPc = "serve", !.server = TRUE,
                          !.routes = setupRoutes(srv.useSocket)]
    /\ UNCHANGED <<ad>>
    /\ UNCHANGED auxVars
    /\ UNCHANGED muxVars
    /\ UNCHANGED mcpVars

\* Start: s.server.Serve(listener).  On a server that has been shut down it
\* closes the listener and returns http.ErrServerClosed.
StartServe ==
    /\ srv.startPc = "serve"
    /\ srv' = IF srv.shut
              THEN [CloseListener(srv) EXCEPT !.startPc = "returned"]
              ELSE [srv EXCEPT !.startPc = "serving"]
    /\ UNCHANGED <<ad>>
    /\ UNCHANGED auxVars
    /\ UNCHANGED muxVars
    /\ UNCHANGED mcpVars

\* Serve returns when its listener has been closed
ServeReturns ==
    /\ srv.startPc = "serving"
    /\ ~srv.open
    /\ srv' = [srv EXCEPT !.startPc = "returned"]
    /\ UNCHANGED <<ad>>
    /\ UNCHANGED auxVars
    /\ UNCHANGED muxVars
    /\ UNCHANGED mcpVars

\* a client sends a request to the serving server
Request(method, path) ==
    /\ srv.startPc = "serving"
    /\ srv.open
    /\ srv' = [srv EXCEPT !.resp = [method |-> method, path |-> path,
                                    handler |-> Route(srv.routes, method, path)]]
    /\ UNCHANGED <<ad>>
    /\ UNCHANGED auxVars
    /\ UNCHANGED muxVars
    /\ UNCHANGED mcpVars

\* Stop, lines 115-121: if s.server != nil, Shutdown, which closes the
\* listeners Serve has registered
StopShutdown ==
    /\ srv.stopPc = "idle"
    /\ srv' = IF srv.server
              THEN [(IF srv.startPc = "serving" THEN CloseListener(srv) ELSE srv)
                       EXCEPT !.stopPc = "listener", !.shut = TRUE]
              ELSE [srv EXCEPT !.stopPc = "listener"]
    /\ UNCHANGED <<ad>>
    /\ UNCHANGED auxVars
    /\ UNCHANGED muxVars
    /\ UNCHANGED mcpVars

\* Stop, lines 122-126: if s.listener != nil, Close
StopClose ==
    /\ srv.stopPc = "listener"
    /\ srv' = IF srv.listener
              THEN [CloseListener(srv) EXCEPT !.stopPc = "remove"]
              ELSE [srv EXCEPT !.stopPc = "remove"]
    /\ UNCHANGED <<ad>>
    /\ UNCHANGED auxVars
    /\ UNCHANGED muxVars
    /\ UNCHANGED mcpVars

\* Stop, lines 127-131: in socket mode os.RemoveAll(s.socketPath); Stop
\* returns
StopRemove ==
    /\ srv.stopPc = "remove"
    /\ srv' = [srv EXCEPT !.stopPc = "returned",
                          !.file = IF srv.useSocket THEN FALSE ELSE @]
    /\ UNCHANGED <<ad>>
    /\ UNCHANGED auxVars
    /\ UNCHANGED muxVars
    /\ UNCHANGED mcpVars

(***************************************************************************)
(* The HTTP handlers: the OpenAI proxy (internal/proxy) in front of the    *)
(* multiplexer, and Server.handleInternalConfig.  A model name is a        *)
(* sequence of parts, so that the prefix "modelplex-" can be cut off.      *)
(***************************************************************************)
ModelplexPrefix == <<"modelplex-">>

RequestModels ==
    {<<"gpt-4">>, <<"modelplex-", "gpt-4">>,
     <<"modelplex-", "modelplex-", "gpt-4">>, <<>>}

\* OpenAIProxy.normalizeModel
normalizeModel(model) ==
    IF HasPrefix(model, ModelplexPrefix) THEN TrimPrefix(model, ModelplexPrefix)
    ELSE model

\* the message lists of the requests: none, two good messages, and one
\* message whose content is a number
ProxyLists ==
    FewLists \cup {<<[role |-> "user", content |-> NotString, name |-> Absent]>>}

\* a request body: text that is no JSON at all ("garbage"), one JSON object
\* ("json"), or one JSON object with more text after it ("trailing"); typed
\* tells whether the members of the object have the types of the fields of
\* the request struct
RequestBodies ==
    {[syntax |-> "garbage", typed |-> FALSE, model |-> <<>>, msgs |-> <<>>]}
    \cup [syntax : {"json", "trailing"}, typed : BOOLEAN,
          model : RequestModels, msgs : ProxyLists]

\* the body as a whole is a JSON document
IsJSON(body) == body.syntax = "json"

\* decodeJSONRequest: json.NewDecoder(r.Body).Decode(req) reads the first
\* JSON value of the body and does not look at what follows it; it fails
\* for text that does not begin with a JSON value and for a member whose
\* type is not that of the field
DecodeFails(body) == body.syntax = "garbage" \/ ~body.typed

\* the multiplexer behind the proxy: it has no adapter, or one adapter of
\* the given kind
Backends == {"none"} \cup SupportedKinds

\* ModelMultiplexer.ChatCompletion / Completion behind the proxy
MuxCall(op, kind, model, msgs, resp) ==
    IF kind = "none"
    THEN [panicked |-> FALSE, request |-> <<>>, result |-> <<>>,
          err |-> <<"no providers available">>]
    ELSE IF op = "chat" THEN AdapterChat(kind, <<"k">>, model, msgs, resp)
    ELSE AdapterCompletion(kind, <<"k">>, model, "p", resp)

\* what the client of the proxy gets: a status and a body; status 0 stands
\* for a connection that is closed without a response
Answer(status, doc) == [status |-> status, doc |-> doc]

\* OpenAIProxy.handleResponse with writeJSONResponse
ProxyHandleResponse(out) ==
    IF out.err # <<>> THEN Answer(500, <<"Internal server error">>)
    ELSE Answer(200, out.result)

\* HandleChatCompletions / HandleCompletions: the answer and the calls of
\* the multiplexer.  A panic in the multiplexer ends the handler; net/http
\* recovers it and closes the connection.
Handle(op, body, kind, resp) ==
    IF DecodeFails(body)
    THEN [answer |-> Answer(400, <<"Invalid JSON">>), muxCalls |-> 0,
          out |-> [panicked |-> FALSE, request |-> <<>>, result |-> <<>>, err |-> <<>>]]
    ELSE LET out == MuxCall(op, kind, normalizeModel(body.model), body.msgs, resp) IN
         [answer |-> IF out.panicked THEN Answer(0, <<>>) ELSE ProxyHandleResponse(out),
          muxCalls |-> 1, out |-> out]

\* config.Config of the server: the providers with their API keys
MaxProviders == 2
ProviderConfigs ==
    [name : {"p"}, kind : {"openai", "ollama"}, base_url : {"u"},
     apiKey : CfgKeys, models : {{"gpt-4"}}, priority : {1}]
ServerConfigs ==
    [providers : UNION {[1..n -> ProviderConfigs] : n \in 0..MaxProviders},
     server : {[LogLevel |-> "info"]}, mcp : {<<"s1">>}]

\* a handleInternalConfig that encodes the provider configurations as they are
handleInternalConfigWhole(cfg) ==
    [server |-> cfg.server, providers |-> cfg.providers, mcp |-> cfg.mcp]

\* Server.handleInternalConfig: the sanitized configuration
handleInternalConfig(cfg) ==
    [server |-> cfg.server,
     providers |-> [i \in DOMAIN cfg.providers |->
                      [name |-> cfg.providers[i].name,
                       type |-> cfg.providers[i].kind,
                       base_url |-> cfg.providers[i].base_url,
                       models |-> cfg.providers[i].models,
                       priority |-> cfg.providers[i].priority]],
     mcp |-> cfg.mcp]

NoConfig == [providers |-> <<>>, server |-> [LogLevel |-> "info"], mcp |-> <<"s1">>]

NoBody == [syntax |-> "garbage", typed |-> FALSE, model |-> <<>>, msgs |-> <<>>]

PxIdle ==
    [cfg |-> NoConfig, backend |-> "none", op |-> "none", body |-> NoBody,
     answer |-> Answer(0, <<>>), muxCalls |-> 0,
     out |-> [panicked |-> FALSE, request |-> <<>>, result |-> <<>>, err |-> <<>>]]

\* a request to the chat endpoint of the proxy
HandleChatCompletions(body, resp) ==
    /\ px.op = "none"
    /\ LET h == Handle("chat", body, px.backend, resp) IN
       px' = [px EXCEPT !.op = "chat", !.body = body, !.answer = h.answer,
                        !.muxCalls = h.muxCalls, !.out = h.out]
    /\ UNCHANGED <<ad, srv, lk, sink>>
    /\ UNCHANGED muxVars
    /\ UNCHANGED mcpVars

\* a request to the completion endpoint of the proxy
HandleCompletions(body, resp) ==
    /\ px.op = "none"
    /\ LET h == Handle("completion", body, px.backend, resp) IN
       px' = [px EXCEPT !.op = "completion", !.body = body, !.answer = h.answer,
                        !.muxCalls = h.muxCalls, !.out = h.out]
    /\ UNCHANGED <<ad, srv, lk, sink>>
    /\ UNCHANGED muxVars
    /\ UNCHANGED mcpVars

\* GET /_internal/config
HandleInternalConfig ==
    /\ px.op = "none"
    /\ px' = [px EXCEPT !.op = "config",
                        !.answer = Answer(200, handleInternalConfig(px.cfg))]
    /\ UNCHANGED <<ad, srv, lk, sink>>
    /\ UNCHANGED muxVars
    /\ UNCHANGED mcpVars

(***************************************************************************)
(* The locks of the MCP client: Client.mu and the Server.mu of each server *)
(* (both sync.RWMutex), and the goroutines that take them: StartServer     *)
(* called for each configuration, CallTool with the goroutine of callTool, *)
(* ListTools, Stop, and handleOutput of each server.  A goroutine that     *)
(* calls Lock waits until no one holds the lock; one that calls RLock      *)
(* waits while a writer holds the lock or waits for it.                    *)
(***************************************************************************)
ReaderName == [s \in Servers |-> IF s = "s1" THEN "reader1" ELSE "reader2"]
LkReaders == {ReaderName[s] : s \in Servers}
LkCallers == {"call", "list"}
LkClientUsers == {"start", "stop"} \cup LkCallers
LkThreads == LkClientUsers \cup LkReaders \cup {"send"}

Unlocked == [w |-> "", r |-> {}, wait |-> {}]

CanLock(m) == m.w = "" /\ m.r = {}
CanRLock(m) == m.w = "" /\ m.wait = {}
Holds(t, m) == m.w = t \/ t \in m.r

\* the lock is asked for: a writer is now waiting
Ask(m, t, kind) == IF kind = "w" THEN [m EXCEPT !.wait = @ \cup {t}] ELSE m

\* the lock is granted
Grant(m, t, kind) ==
    IF kind = "w" THEN [m EXCEPT !.w = t, !.wait = @ \ {t}]
    ELSE [m EXCEPT !.r = @ \cup {t}]

\* Unlock / RUnlock
Release(m, t) == [m EXCEPT !.w = IF @ = t THEN "" ELSE @, !.r = @ \ {t}]

Granted(m, kind) == IF kind = "w" THEN CanLock(m) ELSE CanRLock(m)

\* a client in which every method takes the write lock
ClientLockAlwaysWrite(t) == "w"

\* how a method takes Client.mu: StartServer and Stop call Lock, CallTool
\* and ListTools call RLock
ClientLockKind(t) == IF t \in {"start", "stop"} THEN "w" ELSE "r"

\* how a goroutine takes Server.mu: handleResponse calls Lock, CallTool and
\* ListTools call RLock
ServerLockKind(t) == IF t \in LkReaders THEN "w" ELSE "r"

LkIdle ==
    [pc |-> [t \in LkThreads |-> "idle"],
     cmu |-> Unlocked,
     smu |-> [s \in Servers |-> Unlocked],
     at |-> [t \in LkThreads |-> ""],
     seen |-> [t \in LkThreads |-> {}],
     todo |-> <<>>,
     reg |-> {},
     inbox |-> [s \in Servers |-> 0],
     hasTool |-> [s \in Servers |-> FALSE],
     ctxDone |-> FALSE]

\* StartServer, CallTool, ListTools or Stop is called and asks for Client.mu
LkEnter(t) ==
    /\ t \in LkClientUsers
    /\ lk.pc[t] = "idle"
    /\ t = "start" => lk.todo # <<>>
    /\ lk' = [lk EXCEPT !.pc[t] = "cWait",
                        !.cmu = Ask(@, t, ClientLockKind(t)),
                        !.at[t] = IF t = "start" THEN Head(lk.todo) ELSE "",
                        !.seen[t] = {}]
    /\ UNCHANGED <<ad, srv, px, sink>>
    /\ UNCHANGED muxVars
    /\ UNCHANGED mcpVars

\* c.mu.Lock or c.mu.RLock returns
LkClientAcquire(t) ==
    /\ t \in LkClientUsers
    /\ lk.pc[t] = "cWait"
    /\ Granted(lk.cmu, ClientLockKind(t))
    /\ lk' = [lk EXCEPT !.cmu = Grant(@, t, ClientLockKind(t)),
                        !.pc[t] = CASE t = "start" -> "register"
                                    [] t = "stop" -> "teardown"
                                    [] OTHER -> "loop"]
    /\ UNCHANGED <<ad, srv, px, sink>>
    /\ UNCHANGED muxVars
    /\ UNCHANGED mcpVars

\* StartServer, lines 90-123: the process is started, the server is put
\* in c.servers and its handleOutput goroutine is started
LkRegister ==
    /\ lk.pc["start"] = "register"
    /\ LET s == lk.at["start"] IN
       lk' = [lk EXCEPT !.pc["start"] = "init",
                        !.reg = @ \cup {s},
                        !.pc[ReaderName[s]] = "read"]
    /\ UNCHANGED <<ad, srv, px, sink>>
    /\ UNCHANGED muxVars
    /\ UNCHANGED mcpVars

\* StartServer, line 125: initialize writes the two requests to the
\* process, which will answer tools/list
LkInitialize ==
    /\ lk.pc["start"] = "init"
    /\ lk' = [lk EXCEPT !.pc["start"] = "cUnlock",
                        !.inbox[lk.at["start"]] = 1]
    /\ UNCHANGED <<ad, srv, px, sink>>
    /\ UNCHANGED muxVars
    /\ UNCHANGED mcpVars

\* the deferred c.mu.Unlock or c.mu.RUnlock, and the method returns
LkClientRelease(t) ==
    /\ t \in LkClientUsers
    /\ lk.pc[t] = "cUnlock"
    /\ lk' = [lk EXCEPT !.cmu = Release(@, t),
                        !.pc[t] = IF t = "start" THEN "idle" ELSE "done",
                        !.todo = IF t = "start" THEN Tail(@) ELSE @]
    /\ UNCHANGED <<ad, srv, px, sink>>
    /\ UNCHANGED muxVars
    /\ UNCHANGED mcpVars

\* CallTool, line 244, and ListTools, line 230: the next server of the
\* range over c.servers, and server.mu.RLock is called; after the last
\* server ListTools returns and CallTool returns tool not found
LkLoop(t) ==
    /\ t \in LkCallers
    /\ lk.pc[t] = "loop"
    /\ IF lk.reg \ lk.seen[t] = {}
       THEN lk' = [lk EXCEPT !.pc[t] = "cUnlock"]
       ELSE \E s \in lk.reg \ lk.seen[t] :
               lk' = [lk EXCEPT !.pc[t] = "sWait", !.at[t] = s,
                                !.smu[s] = Ask(@, t, ServerLockKind(t))]
    /\ UNCHANGED <<ad, srv, px, sink>>
    /\ UNCHANGED muxVars
    /\ UNCHANGED mcpVars

\* handleOutput reads a line; handleResponse, line 203, calls s.mu.Lock
\* for the tools/list result
LkRead(s) ==
    /\ lk.pc[ReaderName[s]] = "read"
    /\ lk.inbox[s] > 0
    /\ lk' = [lk EXCEPT !.inbox[s] = @ - 1,
                        !.pc[ReaderName[s]] = "sWait",
                        !.at[ReaderName[s]] = s,
                        !.smu[s] = Ask(@, ReaderName[s], ServerLockKind(ReaderName[s]))]
    /\ UNCHANGED <<ad, srv, px, sink>>
    /\ UNCHANGED muxVars
    /\ UNCHANGED mcpVars

\* s.mu.Lock or server.mu.RLock returns
LkServerAcquire(t) ==
    /\ t \in LkCallers \cup LkReaders
    /\ lk.pc[t] = "sWait"
    /\ Granted(lk.smu[lk.at[t]], ServerLockKind(t))
    /\ lk' = [lk EXCEPT !.smu[lk.at[t]] = Grant(@, t, ServerLockKind(t)),
                        !.pc[t] = "sHeld"]
    /\ UNCHANGED <<ad, srv, px, sink>>
    /\ UNCHANGED muxVars
    /\ UNCHANGED mcpVars

\* what is done under Server.mu, and its Unlock or RUnlock: handleResponse
\* sets s.tools and goes back to reading; CallTool has looked for the tool
\* and enters callTool or goes to the next server; ListTools has copied
\* the tools
LkServerRelease(t) ==
    /\ t \in LkCallers \cup LkReaders
    /\ lk.pc[t] = "sHeld"
    /\ LET s == lk.at[t] IN
       lk' = [lk EXCEPT !.smu[s] = Release(@, t),
                        !.hasTool[s] = IF t \in LkReaders THEN TRUE ELSE @,
                        !.seen[t] = @ \cup {s},
                        !.pc[t] = CASE t \in LkReaders -> "read"
                                    [] t = "call" /\ lk.hasTool[s] -> "callTool"
                                    [] OTHER -> "loop"]
    /\ UNCHANGED <<ad, srv, px, sink>>
    /\ UNCHANGED muxVars
    /\ UNCHANGED mcpVars

\* callTool, lines 275-287: the channels are made and the goroutine started
LkCallTool ==
    /\ lk.pc["call"] = "callTool"
    /\ lk' = [lk EXCEPT !.pc["call"] = "select", !.pc["send"] = "write",
                        !.at["send"] = lk.at["call"]]
    /\ UNCHANGED <<ad, srv, px, sink>>
    /\ UNCHANGED muxVars
    /\ UNCHANGED mcpVars

\* the goroutine of callTool: sendRequest returns and the outcome is sent
LkSend ==
    /\ lk.pc["send"] = "write"
    /\ lk' = [lk EXCEPT !.pc["send"] = "done"]
    /\ UNCHANGED <<ad, srv, px, sink>>
    /\ UNCHANGED muxVars
    /\ UNCHANGED mcpVars

\* the context of the caller is cancelled
LkCancel ==
    /\ lk.pc["call"] = "select"
    /\ ~lk.ctxDone
    /\ lk' = [lk EXCEPT !.ctxDone = TRUE]
    /\ UNCHANGED <<ad, srv, px, sink>>
    /\ UNCHANGED muxVars
    /\ UNCHANGED mcpVars

\* callTool, lines 290-297: the select returns
LkSelect ==
    /\ lk.pc["call"] = "select"
    /\ lk.pc["send"] = "done" \/ lk.ctxDone
    /\ lk' = [lk EXCEPT !.pc["call"] = "cUnlock"]
    /\ UNCHANGED <<ad, srv, px, sink>>
    /\ UNCHANGED muxVars
    /\ UNCHANGED mcpVars

\* Stop, lines 305-315: close, kill and wait for every server
LkTeardown ==
    /\ lk.pc["stop"] = "teardown"
    /\ lk' = [lk EXCEPT !.pc["stop"] = "cUnlock"]
    /\ UNCHANGED <<ad, srv, px, sink>>
    /\ UNCHANGED muxVars
    /\ UNCHANGED mcpVars

(***************************************************************************)
(* The request sink: Server.sendRequest at the grain of the write system   *)
(* calls.  Several goroutines of callTool call s.stdin.Write for the same  *)
(* process.  stdin is the *os.File of the pipe: File.Write holds the write *)
(* lock of the descriptor from its first to its last system call, and a    *)
(* system call blocks while the pipe is full.                              *)
(***************************************************************************)
MaxWriters == 3
Writers == 1..MaxWriters

\* the system calls it takes to write one request: the last one writes the
\* end of the JSON text and the newline
MsgChunks == 2

\* the chunks the pipe holds before a write blocks
PipeCap == 1

\* the k-th part of the request of writer w
Chunk(w, k) == [w |-> w, k |-> k]

SinkIdle ==
    [got |-> <<>>, pipe |-> <<>>, holder |-> 0, closed |-> FALSE,
     st |-> [w \in Writers |-> "idle"], pos |-> [w \in Writers |-> 0]]

\* a Write that does not take the lock of the descriptor
FdLockNone(w) == TRUE

\* poll.FD.writeLock: no other Write is under way on the descriptor
FdLockFree(w) == sink.holder = 0

\* the goroutine of callTool calls sendRequest, which calls s.stdin.Write
WriteCall(w) ==
    /\ sink.st[w] = "idle"
    /\ sink' = [sink EXCEPT !.st[w] = IF sink.closed THEN "failed" ELSE "blocked"]
    /\ UNCHANGED <<ad, srv, px, lk>>
    /\ UNCHANGED muxVars
    /\ UNCHANGED mcpVars

\* Write gets the lock of the descriptor
WriteLock(w) ==
    /\ sink.st[w] = "blocked"
    /\ ~sink.closed
    /\ FdLockFree(w)
    /\ sink' = [sink EXCEPT !.st[w] = "writing", !.holder = w]
    /\ UNCHANGED <<ad, srv, px, lk>>
    /\ UNCHANGED muxVars
    /\ UNCHANGED mcpVars

\* one system call of the Write: the next part of the request goes into
\* the pipe; after the last part Write gives up the lock and returns
WriteChunk(w) ==
    /\ sink.st[w] = "writing"
    /\ ~sink.closed
    /\ Len(sink.pipe) < PipeCap
    /\ LET k == sink.pos[w] + 1 IN
       sink' = [sink EXCEPT !.pipe = Append(@, Chunk(w, k)),
                            !.pos[w] = k,
                            !.st[w] = IF k = MsgChunks THEN "done" ELSE "writing",
                            !.holder = IF k = MsgChunks /\ @ = w THEN 0 ELSE @]
    /\ UNCHANGED <<ad, srv, px, lk>>
    /\ UNCHANGED muxVars
    /\ UNCHANGED mcpVars

\* the process reads from its stdin
ProcessRead ==
    /\ sink.pipe # <<>>
    /\ sink' = [sink EXCEPT !.got = Append(@, Head(sink.pipe)), !.pipe = Tail(@)]
    /\ UNCHANGED <<ad, srv, px, lk>>
    /\ UNCHANGED muxVars
    /\ UNCHANGED mcpVars

\* Stop closes stdin: the Writes that are under way or wait for the lock
\* return an error, and what they have written so far stays written
SinkClose ==
    /\ ~sink.closed
    /\ sink' = [sink EXCEPT !.closed = TRUE, !.holder = 0,
                            !.st = [w \in Writers |->
                                      IF sink.st[w] \in {"blocked", "writing"}
                                      THEN "failed" ELSE sink.st[w]]]
    /\ UNCHANGED <<ad, srv, px, lk>>
    /\ UNCHANGED muxVars
    /\ UNCHANGED mcpVars

\* the adapter, server and handler parts of the state, not in use
ExtIdle == ad = AdIdle /\ srv = SrvIdle /\ px = PxIdle /\ lk = LkIdle /\ sink = SinkIdle

\* all but the adapter and the server are not in use
AuxIdle == px = PxIdle /\ lk = LkIdle /\ sink = SinkIdle

McpIdle ==
    /\ mcpConfigs = <<>>
    /\ nextCfg = 1
    /\ pool = {}
    /\ proc = [s \in Servers |-> "none"]
    /\ tools = [s \in Servers |-> {}]
    /\ stdin = [s \in Servers |-> <<>>]
    /\ replies = [s \in Servers |-> <<>>]
    /\ readPos = [s \in Servers |-> 0]
    /\ call = [c \in Callers |-> IdleCall]
    /\ reader = [s \in Servers |-> "none"]
    /\ oplog = [s \in Servers |-> <<>>]
    /\ stop = StopIdle

MuxIdle ==
    /\ configs = <<>>
    /\ muxPc = "start"
    /\ providers = <<>>
    /\ modelMap = EmptyMap
    /\ last = NoLast

\* the client before NewMCPClient starts the configured servers
ClientInit(cfgs) ==
    /\ MuxIdle
    /\ ExtIdle
    /\ mcpConfigs = cfgs
    /\ nextCfg = 1
    /\ pool = {}
    /\ proc = [s \in Servers |-> "none"]
    /\ tools = [s \in Servers |-> {}]
    /\ stdin = [s \in Servers |-> <<>>]
    /\ replies = [s \in Servers |-> <<>>]
    /\ readPos = [s \in Servers |-> 0]
    /\ call = [c \in Callers |-> IdleCall]
    /\ reader = [s \in Servers |-> "none"]
    /\ oplog = [s \in Servers |-> <<>>]
    /\ stop = StopIdle

\* the state before NewMCPClient starts its one configured server
McpInit == ClientInit(<<"s1">>)

\* one server and well-behaved callers and process: the loop of CallTool
\* has one iteration, so ScanNext has no step here
McpNext ==
    \/ \E how \in StartOutcomes : StartServer(how)
    \/ \E s \in Servers : \E i \in 1..(2 + MaxCalls) : ProcessReply(s, i)
    \/ \E s \in Servers : HandleOutput(s)
    \/ \E c \in Callers : \E name \in ToolNames : \E ctxDone \in BOOLEAN :
           CallTool(c, name, ctxDone)
    \/ \E c \in Callers : \E exited \in BOOLEAN : SenderWrite(c, exited)
    \/ \E c \in Callers : SenderDeliver(c)
    \/ \E c \in Callers : Cancel(c)
    \/ \E c \in Callers : Select(c)

SpecMcp == McpInit /\ [][McpNext]_vars

(***************************************************************************)
(* The pool: two configured servers, one caller, Stop, and processes that  *)
(* may stop reading.                                                       *)
(***************************************************************************)
PoolCallers == {1}

PoolInit == ClientInit(<<"s1", "s2">>)

PoolNext ==
    \/ \E how \in StartOutcomes : StartServer(how)
    \/ \E s \in Servers : \E i \in 1..(2 + MaxCalls) : ProcessReply(s, i)
    \/ \E s \in Servers : ProcessStall(s)
    \/ \E s \in Servers : HandleOutput(s)
    \/ \E c \in PoolCallers : \E name \in ToolNames : \E ctxDone \in BOOLEAN :
           CallTool(c, name, ctxDone)
    \/ \E c \in PoolCallers : \E ctxDone \in BOOLEAN : ScanNext(c, ctxDone)
    \/ \E c \in PoolCallers : \E exited \in BOOLEAN : SenderWrite(c, exited)
    \/ \E c \in PoolCallers : SenderDeliver(c)
    \/ \E c \in PoolCallers : Cancel(c)
    \/ \E c \in PoolCallers : Select(c)
    \/ StopBegin
    \/ StopAcquire
    \/ \E s \in Servers : \E err \in BOOLEAN : StopStep(s, err)
    \/ StopReturn

SpecPool == PoolInit /\ [][PoolNext]_vars

\* what the scheduler guarantees: a goroutine of the client that can take
\* its next step takes it.  Nothing makes a process read its stdin or answer,
\* and nothing makes a caller cancel.
PoolFairness ==
    /\ WF_vars(StopAcquire)
    /\ WF_vars(\E s \in Servers : \E err \in BOOLEAN : StopStep(s, err))
    /\ WF_vars(StopReturn)
    /\ WF_vars(\E s \in Servers : HandleOutput(s))
    /\ WF_vars(\E c \in PoolCallers : \E ctxDone \in BOOLEAN : ScanNext(c, ctxDone))
    /\ WF_vars(\E c \in PoolCallers : SenderWrite(c, FALSE))
    /\ WF_vars(\E c \in PoolCallers : SenderDeliver(c))
    /\ WF_vars(\E c \in PoolCallers : Select(c))

SpecPoolFair == SpecPool /\ PoolFairness

(***************************************************************************)
(* The reader: one server whose process also writes lines that answer no   *)
(* request, and one caller.                                                *)
(***************************************************************************)
ReaderInit == ClientInit(<<"s1">>)

ReaderNext ==
    \/ \E how \in StartOutcomes : StartServer(how)
    \/ \E s \in Servers : \E i \in 1..(2 + MaxCalls) : ProcessReply(s, i)
    \/ \E s \in Servers : \E line \in StrayLines : ProcessEmit(s, line)
    \/ \E s \in Servers : HandleOutput(s)
    \/ \E c \in PoolCallers : \E name \in ToolNames : \E ctxDone \in BOOLEAN :
           CallTool(c, name, ctxDone)
    \/ \E c \in PoolCallers : \E exited \in BOOLEAN : SenderWrite(c, exited)
    \/ \E c \in PoolCallers : SenderDeliver(c)
    \/ \E c \in PoolCallers : Cancel(c)
    \/ \E c \in PoolCallers : Select(c)

SpecReader == ReaderInit /\ [][ReaderNext]_vars

(***************************************************************************)
(* Error responses: one server whose process answers each request once,    *)
(* with a result or with an error, and one caller.                         *)
(***************************************************************************)
ErrReplyInit == ClientInit(<<"s1">>)

ErrReplyNext ==
    \/ \E how \in StartOutcomes : StartServer(how)
    \/ \E s \in Servers : \E i \in 1..(2 + MaxCalls) : ProcessReply(s, i)
    \/ \E s \in Servers : \E i \in 1..(2 + MaxCalls) : ProcessReplyError(s, i)
    \/ \E s \in Servers : HandleOutput(s)
    \/ \E c \in PoolCallers : \E name \in ToolNames : \E ctxDone \in BOOLEAN :
           CallTool(c, name, ctxDone)
    \/ \E c \in PoolCallers : \E exited \in BOOLEAN : SenderWrite(c, exited)
    \/ \E c \in PoolCallers : SenderDeliver(c)
    \/ \E c \in PoolCallers : Cancel(c)
    \/ \E c \in PoolCallers : Select(c)

SpecErrReply == ErrReplyInit /\ [][ErrReplyNext]_vars

MuxInit ==
    /\ McpIdle
    /\ ExtIdle
    /\ configs \in ConfigSeqs
    /\ muxPc = "start"
    /\ providers = <<>>
    /\ modelMap = EmptyMap
    /\ last = NoLast

MuxNext ==
    \/ New
    \/ \E model \in ModelNames : GetProviderCall(model)
    \/ ListModels
    \/ \E model \in ModelNames : ChatCompletion(model)
    \/ \E model \in ModelNames : Completion(model)

SpecMux == MuxInit /\ [][MuxNext]_vars

(***************************************************************************)
(* The adapters: one adapter of each kind, every message list, and a       *)
(* backend that answers 200 with a document.                               *)
(***************************************************************************)
PayloadInit ==
    /\ McpIdle
    /\ MuxIdle
    /\ srv = SrvIdle
    /\ AuxIdle
    /\ \E kind \in SupportedKinds :
           ad = [AdIdle EXCEPT !.pc = "start", !.kind = kind, !.cfgKey = <<"k">>]

PayloadNext ==
    \/ NewAdapter
    \/ \E model \in ConfigModels : \E msgs \in MsgLists :
           AdChat(model, msgs, OkResponse)
    \/ \E model \in ConfigModels : \E prompt \in Prompts :
           AdCompletion(model, prompt, OkResponse)

SpecPayload == PayloadInit /\ [][PayloadNext]_vars

(***************************************************************************)
(* The adapters: every configured key, an environment that changes, and    *)
(* every answer of the backend.                                            *)
(***************************************************************************)
TransportInit ==
    /\ McpIdle
    /\ MuxIdle
    /\ srv = SrvIdle
    /\ AuxIdle
    /\ \E kind \in SupportedKinds : \E key \in CfgKeys : \E env \in Envs :
           ad = [AdIdle EXCEPT !.pc = "start", !.kind = kind, !.cfgKey = key,
                               !.env = env]

TransportNext ==
    \/ NewAdapter
    \/ \E env \in Envs : SetEnv(env)
    \/ \E model \in ConfigModels : \E msgs \in FewLists : \E resp \in Responses :
           AdChat(model, msgs, resp)
    \/ \E model \in ConfigModels : \E prompt \in Prompts : \E resp \in Responses :
           AdCompletion(model, prompt, resp)

SpecTransport == TransportInit /\ [][TransportNext]_vars

(***************************************************************************)
(* The server: Start in its own goroutine, Stop called at any time, and    *)
(* clients.  A socket file of an earlier run may exist.                    *)
(***************************************************************************)
ServerInit ==
    /\ McpIdle
    /\ MuxIdle
    /\ ad = AdIdle
    /\ AuxIdle
    /\ \E useSocket \in BOOLEAN : \E file \in BOOLEAN :
           /\ ~useSocket => ~file
           /\ srv = [SrvIdle EXCEPT !.useSocket = useSocket, !.file = file,
                                    !.startPc = "idle", !.stopPc = "idle"]

ServerNext ==
    \/ \E err \in BOOLEAN : StartRemove(err)
    \/ \E err \in BOOLEAN : StartListen(err)
    \/ StartAssign
    \/ StartRoutes
    \/ StartServe
    \/ ServeReturns
    \/ \E method \in Methods : \E path \in Paths : Request(method, path)
    \/ StopShutdown
    \/ StopClose
    \/ StopRemove

SpecServer == ServerInit /\ [][ServerNext]_vars

(***************************************************************************)
(* The proxy: one request to a handler, every body, every backend.         *)
(***************************************************************************)
ProxyInit ==
    /\ McpIdle
    /\ MuxIdle
    /\ ad = AdIdle
    /\ srv = SrvIdle
    /\ lk = LkIdle
    /\ sink = SinkIdle
    /\ \E kind \in Backends : px = [PxIdle EXCEPT !.backend = kind]

ProxyNext ==
    \/ \E body \in RequestBodies : \E resp \in Responses :
           HandleChatCompletions(body, resp)
    \/ \E body \in RequestBodies : \E resp \in Responses :
           HandleCompletions(body, resp)

SpecProxy == ProxyInit /\ [][ProxyNext]_vars

(***************************************************************************)
(* The configuration endpoint: every configuration of the providers.       *)
(***************************************************************************)
ConfigInit ==
    /\ McpIdle
    /\ MuxIdle
    /\ ad = AdIdle
    /\ srv = SrvIdle
    /\ lk = LkIdle
    /\ sink = SinkIdle
    /\ \E cfg \in ServerConfigs : px = [PxIdle EXCEPT !.cfg = cfg]

ConfigNext == HandleInternalConfig

SpecConfig == ConfigInit /\ [][ConfigNext]_vars

(***************************************************************************)
(* The sink: the goroutines of concurrent tool calls write to one process. *)
(***************************************************************************)
SinkInit ==
    /\ McpIdle
    /\ MuxIdle
    /\ ad = AdIdle
    /\ srv = SrvIdle
    /\ px = PxIdle
    /\ lk = LkIdle
    /\ sink = SinkIdle

SinkNext ==
    \/ \E w \in Writers : WriteCall(w)
    \/ \E w \in Writers : WriteLock(w)
    \/ \E w \in Writers : WriteChunk(w)
    \/ ProcessRead
    \/ SinkClose

SpecSink == SinkInit /\ [][SinkNext]_vars

(***************************************************************************)
(* The locks: two configurations to start, one CallTool, one ListTools and *)
(* Stop, called at any time.                                               *)
(***************************************************************************)
LocksInit ==
    /\ McpIdle
    /\ MuxIdle
    /\ ad = AdIdle
    /\ srv = SrvIdle
    /\ px = PxIdle
    /\ sink = SinkIdle
    /\ lk = [LkIdle EXCEPT !.todo = <<"s1", "s2">>]

LocksNext ==
    \/ \E t \in LkClientUsers : LkEnter(t)
    \/ \E t \in LkClientUsers : LkClientAcquire(t)
    \/ LkRegister
    \/ LkInitialize
    \/ \E t \in LkClientUsers : LkClientRelease(t)
    \/ \E t \in LkCallers : LkLoop(t)
    \/ \E s \in Servers : LkRead(s)
    \/ \E t \in LkCallers \cup LkReaders : LkServerAcquire(t)
    \/ \E t \in LkCallers \cup LkReaders : LkServerRelease(t)
    \/ LkCallTool
    \/ LkSend
    \/ LkCancel
    \/ LkSelect
    \/ LkTeardown

SpecLocks == LocksInit /\ [][LocksNext]_vars

(***************************************************************************)
(* Properties of the multiplexer                                           *)
(***************************************************************************)
Supported(i) == configs[i].kind \in SupportedKinds

Adapters == {i \in 1..Len(configs) : Supported(i)}

Lists(i, M) == M \in configs[i].models

MinPriority == CHOOSE v \in {configs[i].priority : i \in Adapters} :
                   \A i \in Adapters : v <= configs[i].priority

\* C1: a model listed by exactly one configuration of a supported kind
\* resolves to the adapter built from that configuration, whatever the order
\* of the configurations and whatever their priorities.
C1_UniqueModelResolves ==
    muxPc = "ready" =>
        \A M \in ModelNames : \A i \in Adapters :
            (Lists(i, M) /\ \A j \in Adapters : j # i => ~Lists(j, M))
                => GetProvider(M) = [provider |-> i, err |-> NoErr]

\* the listing configuration is neither first in the configuration nor the
\* fallback adapter, and GetProvider has returned its adapter
C1_Witness ==
    /\ muxPc = "ready"
    /\ Len(providers) = 2
    /\ last.op = "GetProvider"
    /\ last.provider = 2
    /\ providers[1] = 1
    /\ Priority(configs, 1) < Priority(configs, 2)
    /\ Lists(2, last.model) /\ ~Lists(1, last.model)

\* C2: a model name in no adapter's model list resolves to an adapter whose
\* priority value is the minimum over all constructed adapters when there is
\* one, and to the no-provider error with a nil adapter exactly when no
\* adapter was constructed.
C2_FallbackLowestPriority ==
    muxPc = "ready" =>
        \A M \in ModelNames :
            (\A i \in Adapters : ~Lists(i, M)) =>
                LET r == GetProvider(M) IN
                /\ Adapters # {} =>
                       /\ r.err = NoErr
                       /\ r.provider \in Adapters
                       /\ configs[r.provider].priority = MinPriority
                /\ (r.err # NoErr) <=> (Adapters = {})
                /\ r.err # NoErr => r.provider = Nil /\ r.err = NoProviderErr(M)

\* two adapters, the preferred one configured last, an unknown model asked for
C2_Witness ==
    /\ muxPc = "ready"
    /\ Adapters = {1, 2}
    /\ configs[2].priority < configs[1].priority
    /\ last.op = "GetProvider"
    /\ \A i \in Adapters : ~Lists(i, last.model)
    /\ last.provider = 2

\* C3: the sort is stable, so the fallback adapter is, among the adapters
\* with the lowest priority value, the one that comes first in the
\* configuration.
C3_StableFallback ==
    muxPc = "ready" /\ Adapters # {} =>
        /\ \A a, b \in 1..Len(providers) :
               (a < b /\ Priority(configs, providers[a]) = Priority(configs, providers[b]))
                   => providers[a] < providers[b]
        /\ \A i \in Adapters :
               configs[i].priority = MinPriority => providers[1] <= i

\* C4 as stated, for the names the index holds: a model listed by two or
\* more configurations is mapped to the adapter of the first of them in
\* configuration order.
C4_FirstConfigWins ==
    muxPc = "ready" =>
        \A M \in DOMAIN modelMap :
            LET listing == {i \in 1..Len(configs) : Lists(i, M)} IN
            Cardinality(listing) >= 2 =>
                \A i \in listing : modelMap[M] <= i

\* C4 amended: a model listed by two or more configurations is mapped to the
\* adapter of the first configuration of a supported kind that lists it,
\* whatever the priorities, and the mapping never changes after construction.
C4_FirstAdapterWins ==
    /\ [](muxPc = "ready" =>
            \A M \in ModelNames :
                LET listing == {i \in Adapters : Lists(i, M)} IN
                /\ listing # {} =>
                       /\ M \in DOMAIN modelMap
                       /\ modelMap[M] \in listing
                       /\ \A i \in listing : modelMap[M] <= i
                /\ listing = {} => M \notin DOMAIN modelMap)
    /\ [][muxPc = "ready" => modelMap' = modelMap]_vars

\* both configurations list the model, the second has the better priority,
\* the index keeps the first, and a routed call has been served since
C4_Witness ==
    /\ muxPc = "ready"
    /\ Adapters = {1, 2}
    /\ configs[2].priority < configs[1].priority
    /\ Lists(1, "gpt-4") /\ Lists(2, "gpt-4")
    /\ modelMap["gpt-4"] = 1
    /\ last.op = "ChatCompletion"
    /\ last.model = "gpt-4"

ToolCallOutcomes == {"Completed", "Cancelled", "Failed"}

\* the tools/call request at index i of stdin[s] is outstanding: written,
\* and its caller has not returned
Outstanding(s, i) ==
    /\ stdin[s][i].method = "tools/call"
    /\ call[stdin[s][i].caller].outcome = "none"

\* C6: no two outstanding requests of one process carry the same ID, and no
\* tools/call request carries an ID of the handshake.
C6_FreshCorrelationIds ==
    \A s \in Servers : \A i, j \in DOMAIN stdin[s] :
        /\ (i # j /\ Outstanding(s, i) /\ Outstanding(s, j))
               => stdin[s][i].id # stdin[s][j].id
        /\ stdin[s][i].method = "tools/call"
               => stdin[s][i].id \notin {mcpInitializeRequestID, mcpListToolsRequestID}

\* every caller has written its request to server s, the process has
\* answered them in reverse order, and the reader has read every answer
AnsweredInReverse(s) ==
    /\ \A c \in Callers : call[c].server = s /\ RequestOf(s, c) # 0
    /\ \A c \in Callers : RepliesTo(s, RequestOf(s, c)) # {}
    /\ \A b, c \in Callers :
           b < c => \A kb \in RepliesTo(s, RequestOf(s, b)) :
                    \A kc \in RepliesTo(s, RequestOf(s, c)) : kc < kb
    /\ readPos[s] = Len(replies[s])

\* C7: when the callers call concurrently and the process answers in
\* reverse order, each caller receives the reply to its own request.
C7_RepliesReachTheirCaller ==
    \A s \in Servers :
        AnsweredInReverse(s) =>
            \A c \in Callers :
                call[c].outcome = "Completed" =>
                    \E k \in RepliesTo(s, RequestOf(s, c)) :
                        call[c].ret = replies[s][k].payload

\* C8: a call returns a successful outcome only after the process has
\* emitted a response with the call's ID, and returns that response's
\* result; a call whose request was written, that got no reply and whose
\* token is not cancelled has not returned.
C8_SuccessOnlyAfterReply ==
    \A c \in Callers :
        LET s == call[c].server IN
        /\ call[c].outcome = "Completed" =>
               \E k \in DOMAIN replies[s] :
                   /\ replies[s][k].id = call[c].id
                   /\ call[c].ret = replies[s][k].payload
        /\ (call[c].sender \in {"wrote", "done"} /\ RequestOf(s, c) # 0
              /\ RepliesTo(s, RequestOf(s, c)) = {} /\ ~call[c].ctxDone)
               => call[c].outcome = "none"

\* C9: a call whose token has fired while the process had emitted no reply
\* for it (and whose request was written without error) returns Cancelled,
\* never a successful result.
C9_CancelledBeforeReply ==
    \A c \in Callers :
        LET s == call[c].server IN
        (/\ call[c].outcome \in ToolCallOutcomes
         /\ call[c].ctxDone
         /\ call[c].outcome # "Failed" /\ call[c].errChan = <<>>
         /\ (RequestOf(s, c) = 0 \/ RepliesTo(s, RequestOf(s, c)) = {}))
            => call[c].outcome = "Cancelled"

\* C10: a tool call delivers at most one outcome, one of Completed,
\* Cancelled and Failed, with the value or error that belongs to it; its
\* request is written at most once; the goroutine hands over at most one
\* value; and an outcome, once delivered, never changes.
C10_OneOutcome ==
    /\ [](\A c \in Callers :
            LET k == call[c] IN
            /\ k.returns <= 1
            /\ k.attempts <= 1
            /\ (k.returns = 1) <=> (k.outcome \in ToolCallOutcomes)
            /\ k.pc = "wait" => k.outcome = "none"
            /\ k.outcome = "Completed" => k.err = "" /\ k.ret # <<>>
            /\ k.outcome = "Cancelled" =>
                   k.err = "context canceled" /\ k.ret = <<>> /\ k.ctxDone
            /\ k.outcome = "Failed" => k.err = "write error" /\ k.ret = <<>>
            /\ Len(k.respChan) + Len(k.errChan) <= 1)
    /\ [][\A c \in Callers :
            call[c].outcome # "none" =>
                /\ call'[c].outcome = call[c].outcome
                /\ call'[c].ret = call[c].ret
                /\ call'[c].err = call[c].err
                /\ call'[c].returns = call[c].returns]_vars

\* cancellation has raced with delivery twice: once the cancellation won
\* (the goroutine's value stays in its channel), once the delivery won
C10_Witness ==
    \E b, c \in Callers :
        /\ call[b].outcome = "Cancelled" /\ call[b].respChan # <<>>
        /\ call[c].outcome = "Completed" /\ call[c].ctxDone

(***************************************************************************)
(* The reader, the handshake and the pool                                  *)
(***************************************************************************)
\* the line handleOutput reads next from the stdout of server s
NextLine(s) == replies[s][readPos[s] + 1]

\* handleOutput of server s is about to take a line
Reading(s) == s \in pool /\ reader[s] = "running" /\ readPos[s] < Len(replies[s])

\* more requests with this ID have been written to server s than responses
\* with this ID have been read from it
PendingFor(s, id) ==
    Cardinality({i \in DOMAIN stdin[s] : stdin[s][i].id = id})
        > Cardinality({k \in 1..readPos[s] :
                          replies[s][k].kind \in {"result", "error"}
                          /\ replies[s][k].id = id})

\* a tools/list result has been handled for server s
Populated(s) ==
    \E k \in 1..readPos[s] :
        /\ replies[s][k].kind = "result"
        /\ replies[s][k].id = mcpListToolsRequestID
        /\ replies[s][k].isToolList

\* C11: a response whose correlation ID has no request outstanding (a late
\* reply, a duplicate, an unknown ID) is discarded: reading it completes no
\* call and changes no tool registry, and the reader goes on to the next
\* line.
C11_StrayDiscarded ==
    [][\A s \in Servers :
          (/\ Reading(s)
           /\ NextLine(s).kind = "result"
           /\ ~PendingFor(s, NextLine(s).id)
           /\ readPos'[s] = readPos[s] + 1)
          => (tools' = tools /\ call' = call /\ reader'[s] = "running")]_vars

\* the start of server s has been attempted and did not get both handshake
\* requests written (the spawn failed, or a write of initialize did)
StartFailed(s) ==
    /\ \E n \in 1..(nextCfg - 1) : mcpConfigs[n] = s
    /\ Len(stdin[s]) < 2

\* the steps Stop has performed on server s
TeardownOf(s) == SelectSeq(oplog[s], LAMBDA e : e.op \in {"close", "kill", "wait"})

\* C12: a configuration whose start fails (no spawn, or the handshake could
\* not be written) is out of the pool: it contributes no tool, no call is
\* dispatched to it and Stop performs no teardown step on it.
C12_FailedStartExcluded ==
    \A s \in Servers :
        StartFailed(s) =>
            /\ tools[s] = {}
            /\ \A c \in Callers : call[c].server # s
            /\ TeardownOf(s) = <<>>

\* Client.ListTools: the tools of all servers of the pool
ListTools == UNION {tools[s] : s \in pool}

\* StartServer has returned nil for server s
StartReturnedNil(s) == s \in pool /\ Len(stdin[s]) >= 2

\* C13: once start has returned a process without error, the tools/list
\* response has populated its registry: every tool the process exposes is
\* in its registry and in the result of ListTools.
C13_PopulatedAtReturn ==
    \A s \in Servers :
        StartReturnedNil(s) =>
            /\ ProcTools[s] \subseteq tools[s]
            /\ ProcTools[s] \subseteq ListTools

\* the methods of the requests written to server s, as the log has them
WritesLogged(s) ==
    LET w == SelectSeq(oplog[s], LAMBDA e : e.op = "write") IN
    [i \in 1..Len(w) |-> w[i].arg]

\* C14: on every server's stdin the first request is initialize and the
\* second is tools/list; tools/list is written only after a successful
\* write of initialize; handleOutput and handleErrors are started before
\* the first write; and a tools/call comes only after the two handshake
\* requests.
C14_HandshakeFirst ==
    \A s \in Servers :
        LET w == stdin[s] IN
        /\ Len(w) >= 1 => w[1].method = "initialize"
        /\ Len(w) >= 2 => w[2].method = "tools/list"
        /\ \A i \in DOMAIN w :
              /\ w[i].method = "tools/list" =>
                     \E j \in 1..(i - 1) : w[j].method = "initialize"
              /\ w[i].method = "tools/call" => i >= 3
              /\ i >= 3 => w[i].method = "tools/call"
        /\ WritesLogged(s) = [i \in 1..Len(w) |-> w[i].method]
        /\ \A i \in DOMAIN oplog[s] :
              oplog[s][i].op = "write" =>
                  /\ i >= 3
                  /\ oplog[s][1] = Event("go", "handleOutput", FALSE)
                  /\ oplog[s][2] = Event("go", "handleErrors", FALSE)

\* one server has had a tools/call written after its handshake, while the
\* other got initialize and then failed to get tools/list
C14_Witness ==
    \E s, t \in Servers :
        /\ Len(stdin[s]) >= 3
        /\ t \in pool /\ Len(stdin[t]) = 1

\* C15: a tool registry is write-once: after a tools/list result has
\* populated it, no line read from the process changes it.
C15_WriteOnce ==
    [][\A s \in Servers : Populated(s) => tools'[s] = tools[s]]_vars

\* C16: CallTool returns tool-not-found only when no server of the pool
\* had the tool in its registry when the call began, and then nothing is
\* written for the call; a call that is dispatched goes to a server whose
\* registry holds the tool, and its request is written to that server only.
C16_NotFoundIffNoTool ==
    \A c \in Callers :
        LET k == call[c] IN
        /\ k.outcome = "NotFound" =>
               /\ k.offered = {}
               /\ k.server = "" /\ k.attempts = 0
               /\ \A s \in Servers : RequestOf(s, c) = 0
        /\ (k.pc = "done" /\ k.server = "") => k.outcome = "NotFound"
        /\ k.server # "" =>
               /\ k.server \in pool
               /\ k.tool \in tools[k.server]
               /\ \A s \in Servers : RequestOf(s, c) # 0 => s = k.server
        /\ (k.pc \in {"wait", "done"} /\ k.offered # {}) => k.server # ""

\* a call for a tool of the second server only was dispatched there after
\* the first server was looked at, and its request has been written
C16_Witness ==
    \E c \in Callers :
        /\ call[c].scanned = {"s1"}
        /\ call[c].server = "s2"
        /\ RequestOf("s2", c) # 0
        /\ RequestOf("s1", c) = 0

\* the position of server s in the configuration list
ConfigIndex(s) == CHOOSE n \in DOMAIN mcpConfigs : mcpConfigs[n] = s

\* C17: when several servers of the pool have a tool of the called name in
\* their registry, the call is dispatched to the one that was registered
\* first.
C17_FirstRegisteredWins ==
    \A c \in Callers :
        (call[c].server # "" /\ Cardinality(call[c].offered) >= 2) =>
            \A s \in call[c].offered : ConfigIndex(call[c].server) <= ConfigIndex(s)

\* C18: a call of Stop eventually returns, whatever calls are in flight.
C18_StopReturns == (stop.pc = "lock") ~> (stop.pc = "done")

\* the names of the steps Stop has performed on server s
StepsOf(s) == [i \in 1..Len(TeardownOf(s)) |-> TeardownOf(s)[i].op]

TeardownSteps == <<"close", "kill", "wait">>

\* C19: Stop performs close, kill, wait on every server of the pool in this
\* order, and an error of a step skips neither the later steps for that
\* server nor the other servers: when Stop has returned, every server of
\* the pool has had all three.
C19_TeardownInOrder ==
    \A s \in Servers :
        /\ Len(StepsOf(s)) <= 3
        /\ StepsOf(s) = SubSeq(TeardownSteps, 1, Len(StepsOf(s)))
        /\ s \notin pool => StepsOf(s) = <<>>
        /\ stop.pc \in {"idle", "lock"} => StepsOf(s) = <<>>
        /\ s \in stop.done => StepsOf(s) = TeardownSteps
        /\ (stop.pc = "done" /\ s \in pool) => StepsOf(s) = TeardownSteps

\* Stop has returned from a pool of two servers, after Kill failed for one
\* server and Wait failed for one
C19_Witness ==
    /\ stop.pc = "done"
    /\ pool = Servers
    /\ \E s \in Servers : Len(TeardownOf(s)) = 3 /\ TeardownOf(s)[2].err
    /\ \E s \in Servers : Len(TeardownOf(s)) = 3 /\ TeardownOf(s)[3].err

\* C20: a line that is no valid JSON-RPC envelope is dropped: reading it
\* changes no registry and no call, the reader is still running after it
\* and has moved on to the next line.
C20_MalformedDropped ==
    [][\A s \in Servers :
          (/\ Reading(s)
           /\ NextLine(s).kind \in {"malformed", "tooLong"}
           /\ (readPos'[s] # readPos[s] \/ reader'[s] # reader[s]))
          => (/\ tools' = tools
              /\ call' = call
              /\ reader'[s] = "running"
              /\ readPos'[s] = readPos[s] + 1)]_vars

(***************************************************************************)
(* The router: excluded configurations, ListModels, read-only state        *)
(***************************************************************************)
\* the indices of the configurations of a supported kind, in order
KeptIndices == SelectSeq([i \in 1..Len(configs) |-> i], LAMBDA i : Supported(i))

\* the configuration list without the configurations of an unsupported kind
KeptConfigs == [j \in 1..Len(KeptIndices) |-> configs[KeptIndices[j]]]

\* what New can build from that list, with each adapter named by the index
\* its configuration has in the full list
BuiltWithoutExcluded ==
    LET m == NewLoop(KeptConfigs, 1, [providers |-> <<>>, modelMap |-> EmptyMap]) IN
    {[providers |-> [j \in 1..Len(q) |-> KeptIndices[q[j]]],
      modelMap |-> [x \in DOMAIN m.modelMap |-> KeptIndices[m.modelMap[x]]]] :
        q \in SortSlice(KeptConfigs, m.providers)}

\* C21: a configuration of an unsupported kind is silently excluded: New
\* does not fail, no adapter is built for it, a model only it lists is not
\* indexed and not listed, it is never the fallback, and the adapter list
\* and the index are what New builds when the configuration is absent.
C21_UnsupportedExcluded ==
    /\ muxPc = "start" => ENABLED New
    /\ muxPc = "ready" =>
          /\ \A i \in 1..Len(configs) : ~Supported(i) =>
                /\ \A k \in DOMAIN providers : providers[k] # i
                /\ \A M \in DOMAIN modelMap : modelMap[M] # i
                /\ \A M \in ModelNames : GetProvider(M).provider # i
          /\ \A M \in DOMAIN modelMap : \E i \in Adapters : Lists(i, M)
          /\ last.op = "ListModels" =>
                \A k \in DOMAIN last.models :
                    \E i \in Adapters : Lists(i, last.models[k])
          /\ [providers |-> providers, modelMap |-> modelMap] \in BuiltWithoutExcluded

\* the first configuration is of an unsupported kind and lists a model the
\* second, supported one does not; ListModels has returned
C21_Witness ==
    /\ muxPc = "ready"
    /\ Len(configs) = 2
    /\ ~Supported(1) /\ Supported(2)
    /\ configs[1].models \ configs[2].models # {}
    /\ configs[2].models # {}
    /\ last.op = "ListModels"

\* C27: ListModels returns every key of the model index exactly once, the
\* keys are the models the constructed adapters list, and two calls in a
\* row return the same set.
C27_ListModelsIsIndex ==
    /\ [](last.op = "ListModels" =>
            /\ {last.models[k] : k \in DOMAIN last.models} = DOMAIN modelMap
            /\ Len(last.models) = Cardinality(DOMAIN modelMap)
            /\ DOMAIN modelMap = UNION {configs[i].models : i \in Adapters})
    /\ [][(last.op = "ListModels" /\ last'.op = "ListModels") =>
            {last'.models[k] : k \in DOMAIN last'.models}
                = {last.models[k] : k \in DOMAIN last.models}]_vars

\* ListModels has returned two models that two adapters both list
C27_Witness ==
    /\ last.op = "ListModels"
    /\ Len(last.models) = 2
    /\ Len(providers) = 2
    /\ configs[1].models = configs[2].models

\* C28: after construction no routed operation, successful or failing,
\* changes the adapter a model resolves to, the indexed models or the order
\* of the adapter list.
C28_ReadOnlyAfterNew ==
    [][muxPc = "ready" =>
          /\ providers' = providers
          /\ modelMap' = modelMap
          /\ \A M \in ModelNames : GetProvider(M)' = GetProvider(M)]_vars

\* a routed call has failed in the adapters' list of two
C28_Witness ==
    /\ muxPc = "ready"
    /\ Len(providers) = 2
    /\ last.op = "ChatCompletion"
    /\ last.err # NoErr

(***************************************************************************)
(* The adapters                                                            *)
(***************************************************************************)
\* the adapter has sent a request for its last call
Sent == ad.last.out.request # <<>>

\* the request of the last call
LastRequest == ad.last.out.request[1]

\* C22: for every message list the body of the Anthropic adapter has the
\* non-system messages of the input, in their order, as messages, with no
\* system message among them; the content of a system message as system;
\* and max_tokens 4096.
C22_AnthropicBody ==
    (ad.kind = "anthropic" /\ ad.last.op = "ChatCompletion") =>
        /\ Sent
        /\ LET msgs == ad.last.msgs
               body == LastRequest.body IN
           /\ body.messages = SelectSeq(msgs, LAMBDA m : m.role # "system")
           /\ \A i \in DOMAIN body.messages : body.messages[i].role # "system"
           /\ (\E i \in DOMAIN msgs : msgs[i].role = "system" /\ msgs[i].content # "") =>
                 /\ "system" \in DOMAIN body
                 /\ \E i \in DOMAIN msgs :
                       msgs[i].role = "system" /\ body.system = <<msgs[i].content>>
           /\ body.max_tokens = <<4096>>

\* a status from 200 to 299
Is2xx(status) == status >= 200 /\ status <= 299

\* C23: an adapter call fails with the transport error, which carries the
\* status and the body, exactly when the backend answers with a status
\* outside 200-299; a 2xx answer with a parseable body is a success that
\* returns the parsed document.
C23_TransportErrorIffNot2xx ==
    (ad.last.op # "none" /\ Sent /\ ad.last.resp.kind = "http") =>
        LET resp == ad.last.resp
            out == ad.last.out IN
        /\ (out.err # <<>> /\ out.err[1] = "API request failed with status")
               <=> ~Is2xx(resp.status)
        /\ ~Is2xx(resp.status) =>
               out.err = <<"API request failed with status", resp.status, resp.body>>
        /\ (Is2xx(resp.status) /\ ValidJSON(resp.body)) =>
               out.err = <<>> /\ out.result = Unmarshal(resp.body)

\* C24: ChatCompletion of an adapter returns a result or an error for every
\* model and every message list, also when a message has no role or content
\* key or one that is no string: it never panics.
C24_NeverPanics ==
    ad.last.op # "none" =>
        /\ ~ad.last.out.panicked
        /\ ad.last.out.result # <<>> \/ ad.last.out.err # <<>>

\* the configured value has the form ${NAME}
HasForm(k) == Len(k) >= 3 /\ k[1] = "$" /\ k[2] = "{" /\ k[Len(k)] = "}"

\* the credential the configured value k stands for in environment env
Expected(k, env) ==
    IF HasForm(k)
    THEN LET name == SubSeq(k, 3, Len(k) - 1) IN
         IF name \in DOMAIN env THEN env[name] ELSE <<>>
    ELSE k

\* C25: the credential of an OpenAI or Anthropic adapter is fixed at
\* construction: the value of NAME in the environment of that moment for a
\* configured ${NAME} (the empty string when unset), the configured value
\* otherwise; and this is what every request carries, whatever the
\* environment is by then.
C25_CredentialFixed ==
    (ad.pc = "ready" /\ ad.kind \in {"openai", "anthropic"}) =>
        LET key == Expected(ad.cfgKey, ad.envAtNew) IN
        /\ ad.apiKey = key
        /\ (ad.last.op # "none" /\ Sent) =>
              IF ad.kind = "openai"
              THEN <<"Authorization", <<"Bearer ">> \o key>> \in LastRequest.headers
              ELSE <<"x-api-key", key>> \in LastRequest.headers

\* the key is ${A}, A was set at construction and has another value now,
\* and a request has been sent since
C25_Witness ==
    /\ ad.pc = "ready"
    /\ ad.kind = "anthropic"
    /\ ad.cfgKey = <<"$", "{", "A", "}">>
    /\ ad.envAtNew # NoEnv
    /\ ad.env # NoEnv
    /\ ad.env # ad.envAtNew
    /\ ad.last.op = "ChatCompletion" /\ Sent
    /\ <<"x-api-key", ad.envAtNew[<<"A">>]>> \in LastRequest.headers

\* C26: every body of the Ollama adapter, for chat and for completion, has
\* stream set to false, and no request of it has an authorization or API
\* key header.
C26_OllamaStreamFalse ==
    (ad.kind = "ollama" /\ ad.last.op # "none") =>
        /\ Sent
        /\ "stream" \in DOMAIN LastRequest.body
        /\ LastRequest.body.stream = <<FALSE>>
        /\ LastRequest.endpoint =
               (IF ad.last.op = "ChatCompletion" THEN "/api/chat" ELSE "/api/generate")
        /\ \A h \in LastRequest.headers : h[1] \notin {"Authorization", "x-api-key"}

\* the Ollama adapter has sent a chat request with two messages
C26_Witness ==
    /\ ad.kind = "ollama"
    /\ ad.last.op = "ChatCompletion"
    /\ Len(ad.last.msgs) = 2
    /\ Sent

(***************************************************************************)
(* The server                                                              *)
(***************************************************************************)
\* C29: a server in socket mode answers 404 to the three internal paths in
\* every state; in HTTP mode they are served; /health, the model endpoints
\* and the tool endpoints are served in both modes.
C29_InternalOnlyOnHTTP ==
    /\ srv.useSocket =>
          /\ \A m \in Methods : \A p \in InternalPaths : Route(srv.routes, m, p) = "404"
          /\ srv.resp.path \in InternalPaths => srv.resp.handler = "404"
    /\ srv.server =>
          /\ Route(srv.routes, "GET", "/health") = "handleHealth"
          /\ Route(srv.routes, "POST", "/models/v1/chat/completions")
                 = "HandleChatCompletions"
          /\ Route(srv.routes, "POST", "/models/v1/completions") = "HandleCompletions"
          /\ Route(srv.routes, "GET", "/models/v1/models") = "HandleModels"
          /\ Route(srv.routes, "GET", "/mcp/v1/tools") = "handleMCPTools"
          /\ \A p \in ToolCallPaths : Route(srv.routes, "POST", p) = "handleMCPToolCall"
    /\ (srv.server /\ ~srv.useSocket) =>
          \A p \in InternalPaths : Route(srv.routes, "GET", p) \notin {"404", "405"}

\* a serving socket-mode server has answered GET /_internal/status
C29_Witness ==
    /\ srv.useSocket
    /\ srv.startPc = "serving"
    /\ srv.resp = [method |-> "GET", path |-> "/_internal/status", handler |-> "404"]

\* the server takes connections
Accepting == srv.startPc = "serving" /\ srv.open

\* C30: once Stop of a socket-mode server has returned, the socket file
\* does not exist and the server accepts no connection, however the steps
\* of Start and of Stop interleave.
C30_StoppedMeansGone ==
    (srv.useSocket /\ srv.stopPc = "returned") => (~srv.file /\ ~Accepting)

(***************************************************************************)
(* The MCP client: cancellation, locks, the request sink, Stop             *)
(***************************************************************************)
\* the steps of Stop that server s has had so far are the same after the step
SameTeardown(s) == TeardownOf(s)' = TeardownOf(s)

\* C33: cancelling a tool call does nothing to the process: the step in
\* which the context is cancelled and the step in which callTool returns
\* Cancelled change no stdin, no process, no registry and no pool; the only
\* thing a call ever writes is its one tools/call request; and close, kill
\* and wait happen only in Stop.
C33_CancelLeavesProcess ==
    [][/\ \A c \in Callers :
             \/ call'[c].ctxDone /\ ~call[c].ctxDone
             \/ call'[c].outcome = "Cancelled" /\ call[c].outcome # "Cancelled"
             => /\ stdin' = stdin
                /\ proc' = proc
                /\ tools' = tools
                /\ pool' = pool
                /\ oplog' = oplog
       /\ \A s \in Servers :
             stdin'[s] # stdin[s] =>
                \/ stdin[s] = <<>> /\ s \notin pool
                \/ \E c \in Callers :
                      /\ call[c].sender = "write"
                      /\ call[c].attempts = 0
                      /\ call[c].server = s
                      /\ stdin'[s] = Append(stdin[s], CallToolRequest(c, call[c].tool))
       /\ \A s \in Servers : ~SameTeardown(s) => stop.pc = "teardown"]_vars

\* a call has returned Cancelled, its request has reached the process, and
\* the process runs on with its registry; Stop has not been called
C33_Witness ==
    \E c \in Callers :
        /\ call[c].outcome = "Cancelled"
        /\ call[c].sender = "done"
        /\ RequestOf(call[c].server, c) # 0
        /\ proc[call[c].server] = "running"
        /\ call[c].tool \in tools[call[c].server]
        /\ TeardownOf(call[c].server) = <<>>
        /\ stop.pc = "idle"

\* C36: the goroutine of a tool call never blocks on handing over its
\* outcome: once its write has returned, its send on the result or error
\* channel can be done, whether the caller still waits or has returned, and
\* with that one send the goroutine is over.
C36_SenderNeverBlocks ==
    \A c \in Callers :
        /\ call[c].sender \in {"wrote", "writeFailed"} => ENABLED SenderDeliver(c)
        /\ Len(call[c].respChan) + Len(call[c].errChan) <= 1
        /\ call[c].sender = "done" =>
              \/ Len(call[c].respChan) + Len(call[c].errChan) = 1
              \/ call[c].outcome \in {"Completed", "Failed"}

\* the caller has returned Cancelled before the write of the goroutine
\* returned, and the goroutine has left its outcome in the channel and ended
C36_Witness ==
    \E c \in Callers :
        /\ call[c].pc = "done"
        /\ call[c].outcome = "Cancelled"
        /\ call[c].sender = "done"
        /\ call[c].respChan = <<FabricatedSuccess>>

\* C37: Stop changes neither the pool nor a registry; when it has returned
\* the stdin of every server of the pool is closed; and a CallTool that
\* finds its tool after that returns a write error or Cancelled, never a
\* result.
C37_NoSuccessAfterStop ==
    [][/\ stop' # stop => (pool' = pool /\ tools' = tools)
       /\ stop'.pc = "done" => \A s \in pool' : Closed(s)'
       /\ \A c \in Callers :
             (stop.pc = "done" /\ call[c].pc = "wait" /\ call'[c].pc = "done") =>
                 /\ call'[c].outcome \in {"Failed", "Cancelled"}
                 /\ call'[c].ret = <<>>
                 /\ call'[c].err \in {"write error", "context canceled"}]_vars

\* Stop has returned after killing a process that was alive, and a CallTool
\* for a tool in the registry of that server has returned the write error
C37_Witness ==
    \E c \in Callers :
        /\ stop.pc = "done"
        /\ call[c].pc = "done"
        /\ call[c].outcome = "Failed"
        /\ call[c].tool \in tools[call[c].server]
        /\ Len(TeardownOf(call[c].server)) = 3
        /\ ~TeardownOf(call[c].server)[2].err

\* the process of s has answered its tools/list request with an error
ListAnsweredWithError(s) ==
    \E k \in DOMAIN replies[s] :
        /\ replies[s][k].kind = "error"
        /\ replies[s][k].req # 0
        /\ stdin[s][replies[s][k].req].method = "tools/list"

\* the reader of s takes an error response in this step
ReadsError(s) ==
    /\ readPos'[s] = readPos[s] + 1
    /\ replies[s][readPos[s] + 1].kind = "error"

\* C38: reading a JSON-RPC error response, whatever its id, changes no
\* registry and leaves the process in the pool with its reader running; a
\* process that has answered tools/list with an error has an empty registry,
\* and every CallTool returns tool not found.
C38_ErrorResponseIgnored ==
    /\ [][\A s \in Servers :
             ReadsError(s) => (tools' = tools /\ pool' = pool /\ reader' = reader)]_vars
    /\ [](\A s \in pool :
             ListAnsweredWithError(s) =>
                 /\ tools[s] = {}
                 /\ \A c \in Callers : call[c].outcome \in {"none", "NotFound"})

\* the process has answered tools/list with an error, the reader has read
\* it, and a CallTool for a tool of the process has returned tool not found
C38_Witness ==
    \E s \in pool : \E c \in Callers :
        /\ ListAnsweredWithError(s)
        /\ readPos[s] = Len(replies[s])
        /\ call[c].outcome = "NotFound"
        /\ call[c].tool \in ProcTools[s]

(***************************************************************************)
(* The HTTP handlers                                                       *)
(***************************************************************************)
\* the configuration cfg with the API key keys[i] for its i-th provider
WithKeys(cfg, keys) ==
    [cfg EXCEPT !.providers =
        [i \in DOMAIN cfg.providers |-> [cfg.providers[i] EXCEPT !.apiKey = keys[i]]]]

\* C31: the response of /_internal/config is the same for every other
\* choice of the providers' API keys, and no provider entry of it has an
\* api_key member.
C31_ConfigHidesKeys ==
    px.op = "config" =>
        /\ px.answer.status = 200
        /\ \A keys \in [DOMAIN px.cfg.providers -> CfgKeys] :
              handleInternalConfig(WithKeys(px.cfg, keys)) = px.answer.doc
        /\ \A i \in DOMAIN px.answer.doc.providers :
              DOMAIN px.answer.doc.providers[i] \cap {"api_key", "apiKey", "APIKey"} = {}

\* the configuration of two providers with different keys has been served
C31_Witness ==
    /\ px.op = "config"
    /\ Len(px.cfg.providers) = 2
    /\ px.cfg.providers[1].apiKey = <<"k">>
    /\ px.cfg.providers[2].apiKey = <<"$", "{", "A", "}">>
    /\ Len(px.answer.doc.providers) = 2

\* C32: a handler of the proxy answers 400 to a body that is not a JSON
\* document and does not call the multiplexer; it answers 500 when the
\* multiplexer returns an error; it answers 200 with the document the
\* multiplexer returned otherwise; every request gets one of the three
\* answers and calls the multiplexer at most once.
C32_ProxyOutcomes ==
    px.op \in {"chat", "completion"} =>
        /\ px.answer.status \in {400, 500, 200}
        /\ px.muxCalls <= 1
        /\ ~IsJSON(px.body) => (px.answer.status = 400 /\ px.muxCalls = 0)
        /\ px.answer.status = 400 => px.muxCalls = 0
        /\ (px.muxCalls = 1 /\ px.out.err # <<>>) => px.answer.status = 500
        /\ px.answer.status = 500 => (px.muxCalls = 1 /\ px.out.err # <<>>)
        /\ px.answer.status = 200 =>
              (px.muxCalls = 1 /\ px.out.err = <<>> /\ px.answer.doc = px.out.result)

(***************************************************************************)
(* The request sink                                                        *)
(***************************************************************************)
\* what the process has received or will receive: what it has read and
\* what is in the pipe
Received == sink.got \o sink.pipe

\* C35: requests written at the same time by several callers are never
\* mixed: a request begins only at the start of the stream or after the
\* newline of the request before it, each of its parts follows the part
\* before it of the same request, and no request is written twice, so every
\* line that ends with a newline is one whole request.
C35_WritesNotInterleaved ==
    /\ \A i \in DOMAIN Received :
          IF Received[i].k = 1
          THEN i = 1 \/ Received[i - 1].k = MsgChunks
          ELSE i > 1 /\ Received[i - 1] = Chunk(Received[i].w, Received[i].k - 1)
    /\ \A i, j \in DOMAIN Received : Received[i] = Received[j] => i = j

\* one writer is in the middle of its request, part of which has reached
\* the pipe, while another has called Write and waits
C35_Witness ==
    \E w, v \in Writers :
        /\ sink.st[w] = "writing"
        /\ sink.pos[w] >= 1
        /\ sink.pos[w] < MsgChunks
        /\ sink.st[v] = "blocked"
        /\ Received # <<>>


\* the lock a goroutine waits for, and how it asked for it
WaitsFor(t) == IF lk.pc[t] = "cWait" THEN lk.cmu ELSE lk.smu[lk.at[t]]
WaitKind(t) == IF lk.pc[t] = "cWait" THEN ClientLockKind(t) ELSE ServerLockKind(t)
Blocked(t) == lk.pc[t] \in {"cWait", "sWait"} /\ ~Granted(WaitsFor(t), WaitKind(t))

\* the goroutines that must give way before t gets its lock: the holders,
\* and for a reader also the writers that wait
Blockers(t) ==
    LET m == WaitsFor(t) IN
    (({m.w} \ {""}) \cup (IF WaitKind(t) = "w" THEN m.r ELSE m.wait)) \ {t}

\* no set of goroutines in which each waits for a lock that another of
\* the set must give up first
NoLockCycle ==
    \A W \in SUBSET LkThreads :
        W # {} => \E t \in W : ~Blocked(t) \/ Blockers(t) \cap W = {}

HoldsServerLock(t) ==
    \E s \in Servers : Holds(t, lk.smu[s]) \/ t \in lk.smu[s].wait

\* a goroutine that waits for Server.mu in CallTool or ListTools, or holds
\* it there, holds Client.mu; one that asks for Client.mu, or writes to a
\* process (initialize in StartServer, sendRequest in the goroutine of
\* callTool), holds no Server.mu and waits for none
LockOrder ==
    /\ \A t \in LkCallers :
          lk.pc[t] \in {"sWait", "sHeld"} => Holds(t, lk.cmu)
    /\ \A t \in LkClientUsers : lk.pc[t] = "cWait" => ~HoldsServerLock(t)
    /\ lk.pc["start"] = "init" => ~HoldsServerLock("start")
    /\ lk.pc["send"] = "write" => ~HoldsServerLock("send")

WriterAtWork == 
    \/ lk.pc["start"] \in {"cWait", "register", "init", "cUnlock"}
    \/ lk.pc["stop"] \in {"cWait", "teardown", "cUnlock"}

\* C34: no interleaving of StartServer, ListTools, CallTool, Stop and the
\* handleOutput goroutines leaves goroutines waiting for each other's
\* locks: Client.mu is taken before a Server.mu, no Server.mu is held
\* while Client.mu is asked for or while a process is written to, and a
\* CallTool or ListTools that asks for Client.mu gets it whenever neither
\* StartServer nor Stop holds it or waits for it (and gets a Server.mu
\* whenever handleResponse neither holds it nor waits for it), whatever
\* the other of the two is doing.
C34_NoLockDeadlock ==
    /\ NoLockCycle
    /\ LockOrder
    /\ \A t \in LkCallers :
          /\ lk.pc[t] = "cWait" /\ ~WriterAtWork => ENABLED LkClientAcquire(t)
          /\ (lk.pc[t] = "sWait"
                /\ lk.pc[ReaderName[lk.at[t]]] \notin {"sWait", "sHeld"})
             => ENABLED LkServerAcquire(t)

\* CallTool sits in callTool with Client.mu read-locked while ListTools
\* asks for Client.mu, and no StartServer or Stop is in the way
C34_Witness ==
    /\ lk.pc["call"] = "select"
    /\ lk.pc["list"] = "cWait"
    /\ ~WriterAtWork
    /\ lk.reg = Servers
====
